---------------------------- MODULE Spec2Model ----------------------------
(***************************************************************************)
(* A model of the runfile interpreter: the lexer (phases/tokenize.rs), the *)
(* parser (phases/parse.rs), the resolver (phases/resolve.rs) and the      *)
(* invoker (phases/run.rs), driven as pipeline.rs drives them.             *)
(*                                                                         *)
(* Text is modelled by TLA+ strings; a Rust Option<T> is the empty         *)
(* sequence (None) or a one-element sequence (Some); a Rust Result is a    *)
(* record with an `ok` field.                                              *)
(***************************************************************************)
EXTENDS Integers, Sequences, FiniteSets, TLC

(***************************************************************************)
(* Rust's str and Option operations used by the phases.                    *)
(***************************************************************************)
None == <<>>

Some(v) == <<v>>

CharAt(s, k) == SubSeq(s, k, k)

IsWhitespace(c) == c \in {" ", "\t", "\n"}

starts_with(s, p) == Len(s) >= Len(p) /\ SubSeq(s, 1, Len(p)) = p

ends_with(s, p) == Len(s) >= Len(p) /\ SubSeq(s, Len(s) - Len(p) + 1, Len(s)) = p

contains(s, p) == \E k \in 1..(Len(s) - Len(p) + 1) : SubSeq(s, k, k + Len(p) - 1) = p

\* str::find: the index (from 1) of the first occurrence of p in s; 0 when there is none
find(s, p) ==
  IF contains(s, p)
  THEN CHOOSE k \in 1..(Len(s) - Len(p) + 1) :
         /\ SubSeq(s, k, k + Len(p) - 1) = p
         /\ \A j \in 1..(k - 1) : SubSeq(s, j, j + Len(p) - 1) # p
  ELSE 0

trim_start(s) ==
  IF \A k \in 1..Len(s) : IsWhitespace(CharAt(s, k))
  THEN ""
  ELSE LET f == CHOOSE k \in 1..Len(s) :
                  /\ ~IsWhitespace(CharAt(s, k))
                  /\ \A j \in 1..(k - 1) : IsWhitespace(CharAt(s, j))
       IN SubSeq(s, f, Len(s))

trim_end(s) ==
  IF \A k \in 1..Len(s) : IsWhitespace(CharAt(s, k))
  THEN ""
  ELSE LET l == CHOOSE k \in 1..Len(s) :
                  /\ ~IsWhitespace(CharAt(s, k))
                  /\ \A j \in (k + 1)..Len(s) : IsWhitespace(CharAt(s, j))
       IN SubSeq(s, 1, l)

trim(s) == trim_end(trim_start(s))

\* strip_prefix / strip_suffix where the caller has already tested the affix
strip_prefix(s, p) == SubSeq(s, Len(p) + 1, Len(s))

strip_suffix(s, p) == SubSeq(s, 1, Len(s) - Len(p))

\* strip_suffix(p).unwrap_or(s)
strip_suffix_or_self(s, p) == IF ends_with(s, p) THEN strip_suffix(s, p) ELSE s

RECURSIVE split(_, _)
\* str::split on a one-character separator: empty pieces are kept
split(s, c) ==
  IF ~contains(s, c)
  THEN <<s>>
  ELSE LET k == find(s, c)
       IN <<SubSeq(s, 1, k - 1)>> \o split(SubSeq(s, k + 1, Len(s)), c)

\* a faulty variant of splitn2: the text is split at every separator
split_every(s, c) == split(s, c)

\* str::splitn(2, c)
splitn2(s, c) ==
  IF ~contains(s, c)
  THEN <<s>>
  ELSE LET k == find(s, c)
       IN <<SubSeq(s, 1, k - 1), SubSeq(s, k + 1, Len(s))>>

\* the length of the first word of t, which starts with no whitespace
WordEnd(t) ==
  IF \E k \in 1..Len(t) : IsWhitespace(CharAt(t, k))
  THEN (CHOOSE k \in 1..Len(t) :
          /\ IsWhitespace(CharAt(t, k))
          /\ \A j \in 1..(k - 1) : ~IsWhitespace(CharAt(t, j))) - 1
  ELSE Len(t)

RECURSIVE split_whitespace(_), SplitWords(_, _)
\* str::split_whitespace
split_whitespace(s) ==
  IF trim_start(s) = "" THEN <<>> ELSE SplitWords(trim_start(s), WordEnd(trim_start(s)))

SplitWords(t, e) == <<SubSeq(t, 1, e)>> \o split_whitespace(SubSeq(t, e + 1, Len(t)))

RECURSIVE join(_, _)
\* [String]::join
join(parts, sep) ==
  IF parts = <<>>
  THEN ""
  ELSE IF Len(parts) = 1
       THEN parts[1]
       ELSE parts[1] \o sep \o join(Tail(parts), sep)

LowerLetters == "abcdefghijklmnopqrstuvwxyz"

UpperLetters == "ABCDEFGHIJKLMNOPQRSTUVWXYZ"

to_uppercase_char(c) ==
  IF contains(LowerLetters, c) /\ Len(c) = 1
  THEN CharAt(UpperLetters, find(LowerLetters, c))
  ELSE c

RECURSIVE to_uppercase(_)
to_uppercase(s) ==
  IF s = ""
  THEN ""
  ELSE to_uppercase_char(CharAt(s, 1)) \o to_uppercase(SubSeq(s, 2, Len(s)))

\* Result<T>
Ok(v) == [ok |-> TRUE, val |-> v]

Err(kind, msg) == [ok |-> FALSE, kind |-> kind, msg |-> msg]

(***************************************************************************)
(* Lexer: phases/tokenize.rs                                               *)
(***************************************************************************)
GroupHeader(name) == [type |-> "GroupHeader", name |-> name]

CommandName(name, inline_args, inline_flags, comment) ==
  [type |-> "CommandName", name |-> name, inline_args |-> inline_args,
   inline_flags |-> inline_flags, comment |-> comment]

ArgumentToken(name, optional, is_varargs, comment) ==
  [type |-> "Argument", name |-> name, optional |-> optional,
   is_varargs |-> is_varargs, comment |-> comment]

FlagToken(long_name, short, takes_value, type_hint, comment) ==
  [type |-> "Flag", long_name |-> long_name, short |-> short,
   takes_value |-> takes_value, type_hint |-> type_hint, comment |-> comment]

ScriptLine(content) == [type |-> "ScriptLine", content |-> content]

Comment(content) == [type |-> "Comment", content |-> content]

AllDashes(s) == \A k \in 1..Len(s) : CharAt(s, k) = "-"

IsSeparator(trimmed) ==
  starts_with(trimmed, "# ") /\ Len(trimmed) > 2 /\ AllDashes(SubSeq(trimmed, 3, Len(trimmed)))

is_separator_line(line) == IsSeparator(trim(line))

\* the test that ends the alias run of a header
StopsAliasRun(part) ==
  starts_with(part, "-") \/ contains(part, "?") \/ contains(part, "...") \/ contains(part, "=")

RECURSIVE AliasRunEnd(_, _, _)
\* the alias loop of is_command_line: the number of parts it accepts (its final i)
AliasRunEnd(parts, i, prev_had_comma) ==
  IF i >= Len(parts)
  THEN i
  ELSE LET part == parts[i + 1]
       IN IF StopsAliasRun(part)
          THEN i
          ELSE IF contains(part, ",")
               THEN AliasRunEnd(parts, i + 1, TRUE)
               ELSE IF prev_had_comma
                    THEN AliasRunEnd(parts, i + 1, FALSE)
                    ELSE IF i = 0
                         THEN AliasRunEnd(parts, i + 1, FALSE)
                         ELSE i

\* a trimmed line without its trailing colon, trimmed again
StripColon(trimmed) ==
  IF ends_with(trimmed, ":") THEN trim(strip_suffix(trimmed, ":")) ELSE trimmed

\* is_command_line, given the line, the trimmed line and the parts of its command_line
IsCommandLine(line, trimmed, command_line, parts) ==
  IF starts_with(trimmed, "#") \/ starts_with(trimmed, "echo") \/ starts_with(trimmed, "#!/")
  THEN FALSE
  ELSE IF starts_with(line, "  ")
       THEN FALSE
       ELSE IF command_line = ""
            THEN TRUE
            ELSE IF parts = <<>>
                 THEN FALSE
                 ELSE AliasRunEnd(parts, 0, FALSE) > 0

is_command_line(line) ==
  IsCommandLine(line, trim(line), StripColon(trim(line)),
                split_whitespace(StripColon(trim(line))))

\* a trimming that keeps the empty pieces of a comma-split part
AllTrimmed(pieces) == [k \in 1..Len(pieces) |-> trim(pieces[k])]

RECURSIVE NonEmptyTrimmed(_)
\* the non-empty pieces of a comma-split part, each trimmed
NonEmptyTrimmed(pieces) ==
  IF pieces = <<>>
  THEN <<>>
  ELSE (IF trim(pieces[1]) # "" THEN <<trim(pieces[1])>> ELSE <<>>)
         \o NonEmptyTrimmed(Tail(pieces))

RECURSIVE AliasLoop(_, _, _, _)
\* the alias loop of parse_command_line: <<aliases, i>> when it ends
AliasLoop(parts, i, prev_had_comma, aliases) ==
  IF i >= Len(parts)
  THEN <<aliases, i>>
  ELSE LET part == parts[i + 1]
       IN IF StopsAliasRun(part)
          THEN <<aliases, i>>
          ELSE IF contains(part, ",")
               THEN AliasLoop(parts, i + 1, TRUE, aliases \o NonEmptyTrimmed(split(part, ",")))
               ELSE IF prev_had_comma
                    THEN AliasLoop(parts, i + 1, FALSE, Append(aliases, part))
                    ELSE IF aliases = <<>>
                         THEN AliasLoop(parts, i + 1, FALSE, Append(aliases, part))
                         ELSE <<aliases, i>>

\* an end of parse_command_line that accepts an empty alias list
CommandLinePartsUnnamed(parts, r) == Ok(<<r[1], SubSeq(parts, r[2] + 1, Len(parts))>>)

\* the end of parse_command_line, given the parts and the alias loop's <<aliases, i>>
CommandLineParts(parts, r) ==
  IF r[1] = <<>>
  THEN Err("LexError", "Command must have at least one name")
  ELSE Ok(<<r[1], SubSeq(parts, r[2] + 1, Len(parts))>>)

\* Ok(<<aliases, args_and_flags>>) or the error
parse_command_line(line) ==
  CommandLineParts(split_whitespace(line), AliasLoop(split_whitespace(line), 0, FALSE, <<>>))

\* parse_flag_name, given the flag without its `--` and its pieces around `=`
FlagName(flag, parts) ==
  IF contains(flag, "=") /\ Len(parts) = 2
  THEN <<parts[1], TRUE,
         IF starts_with(parts[2], "<") /\ ends_with(strip_prefix(parts[2], "<"), ">")
         THEN Some(strip_suffix(strip_prefix(parts[2], "<"), ">"))
         ELSE None>>
  ELSE <<flag, FALSE, None>>

\* flag.strip_prefix("--").unwrap_or(flag)
StripDashes(flag_text) ==
  IF starts_with(flag_text, "--") THEN strip_prefix(flag_text, "--") ELSE flag_text

\* <<name, takes_value, type_hint>>; the Rust function never returns Err
parse_flag_name(flag_text) ==
  FlagName(StripDashes(flag_text), split(StripDashes(flag_text), "="))

\* s.strip_prefix('-').and_then(|s| s.chars().next())
ShortOf(short_part) ==
  IF starts_with(short_part, "-") /\ Len(short_part) >= 2
  THEN Some(CharAt(short_part, 2))
  ELSE None

\* an InlineFlag from the <<name, takes_value, type_hint>> of parse_flag_name
InlineFlag(f, short) == <<f[1], short, f[2], f[3]>>

\* a faulty variant of InlineVarargs: the variadic argument is left required
InlineVarargsRequired(part) ==
  <<IF starts_with(part, "...") THEN strip_prefix(part, "...") ELSE strip_suffix(part, "..."),
    FALSE, TRUE>>

\* the InlineArg of a `...name` or `name...` part: optional and variadic
InlineVarargs(part) ==
  <<IF starts_with(part, "...") THEN strip_prefix(part, "...") ELSE strip_suffix(part, "..."),
    TRUE, TRUE>>

RECURSIVE ArgsAndFlagsLoop(_, _, _, _)
\* the loop of parse_args_and_flags: <<args, flags>>
ArgsAndFlagsLoop(parts, i, args, flags) ==
  IF i >= Len(parts)
  THEN <<args, flags>>
  ELSE LET part == parts[i + 1]
       IN IF starts_with(part, "...") \/ ends_with(part, "...")
          THEN ArgsAndFlagsLoop(parts, i + 1, Append(args, InlineVarargs(part)), flags)
          ELSE IF starts_with(part, "-")
               THEN IF ends_with(part, ",") /\ i + 1 < Len(parts)
                    THEN ArgsAndFlagsLoop(parts, i + 2, args,
                           Append(flags, InlineFlag(parse_flag_name(parts[i + 2]),
                                                    ShortOf(strip_suffix(part, ",")))))
                    ELSE IF starts_with(part, "--")
                         THEN ArgsAndFlagsLoop(parts, i + 1, args,
                                Append(flags, InlineFlag(parse_flag_name(part), None)))
                         ELSE IF Len(part) = 2
                              THEN ArgsAndFlagsLoop(parts, i + 1, args,
                                     Append(flags, <<CharAt(part, 2), Some(CharAt(part, 2)),
                                                     FALSE, None>>))
                              ELSE ArgsAndFlagsLoop(parts, i + 1, args, flags)
               ELSE ArgsAndFlagsLoop(parts, i + 1,
                      Append(args, IF ends_with(part, "?")
                                   THEN <<strip_suffix(part, "?"), TRUE, FALSE>>
                                   ELSE <<part, FALSE, FALSE>>),
                      flags)

parse_args_and_flags(parts) == ArgsAndFlagsLoop(parts, 0, <<>>, <<>>)

\* the CommandName token of a header, given its aliases and its <<args, flags>>
HeaderToken(aliases, inline, comment) ==
  Ok(Some(CommandName(aliases, inline[1], inline[2], comment)))

\* the header branch, given the trimmed line and the result of parse_command_line
CommandHeader(trimmed, parsed, comment) ==
  IF contains(trimmed, " # ")
  THEN Err("LexError",
           "Command comments must be on the line above the command, not on the same line")
  ELSE IF ~parsed.ok
       THEN parsed
       ELSE HeaderToken(parsed.val[1],
                        IF parsed.val[2] = <<>>
                        THEN <<<<>>, <<>>>>
                        ELSE parse_args_and_flags(parsed.val[2]),
                        comment)

\* the command branch shared by parse_line_with_comment and parse_line
ParseCommandHeader(line, comment) ==
  CommandHeader(trim(line), parse_command_line(StripColon(trim(line))), comment)

\* the `...`, `?` and plain shapes of an indented argument line
ArgumentShape(clean_content) ==
  IF starts_with(clean_content, "...")
  THEN <<strip_prefix(clean_content, "..."), TRUE, TRUE>>
  ELSE IF ends_with(clean_content, "...")
       THEN <<strip_suffix(clean_content, "..."), TRUE, TRUE>>
       ELSE IF ends_with(clean_content, "?")
            THEN <<strip_suffix(clean_content, "?"), TRUE, FALSE>>
            ELSE <<clean_content, FALSE, FALSE>>

RECURSIVE TrimEach(_)
TrimEach(pieces) ==
  IF pieces = <<>> THEN <<>> ELSE <<trim(pieces[1])>> \o TrimEach(Tail(pieces))

\* the last rule of parse_line: a comment or a script line
CommentOrScriptLine(line) ==
  IF starts_with(trim(line), "#")
  THEN IF starts_with(trim(line), "#!/")
       THEN Ok(Some(ScriptLine(line)))
       ELSE Ok(Some(Comment(trim(line))))
  ELSE Ok(Some(ScriptLine(line)))

\* the part of an indented line before its ` # ` comment, trimmed
ContentPart(content, comment_start) ==
  IF comment_start > 0 THEN trim(SubSeq(content, 1, comment_start - 1)) ELSE content

\* after.trim().strip_prefix('#').unwrap_or(after.trim()).trim()
CommentText(after) == trim(IF starts_with(after, "#") THEN strip_prefix(after, "#") ELSE after)

\* the ` # ` comment of an indented line
CommentPart(content, comment_start) ==
  IF comment_start > 0
  THEN Some(CommentText(trim(SubSeq(content, comment_start, Len(content)))))
  ELSE None

\* a Flag token from the <<name, takes_value, type_hint>> of parse_flag_name
FlagFrom(f, short, comment) == Ok(Some(FlagToken(f[1], short, f[2], f[3], comment)))

\* an Argument token from the <<name, optional, is_varargs>> of its shape
ArgumentFrom(a, comment) == Ok(Some(ArgumentToken(a[1], a[2], a[3], comment)))

\* the indented-declaration rule, given the declaration, its comma pieces and its comment;
\* what is no declaration falls through to CommentOrScriptLine
IndentedDecl(line, content_part, parts, comment) ==
  IF starts_with(content_part, "#!/")
  THEN Ok(Some(ScriptLine(line)))
  ELSE IF starts_with(content_part, "-")
       THEN IF Len(parts) = 2
            THEN FlagFrom(parse_flag_name(strip_suffix_or_self(parts[2], ":")),
                          ShortOf(parts[1]), comment)
            ELSE IF starts_with(content_part, "--")
                 THEN FlagFrom(parse_flag_name(strip_suffix_or_self(content_part, ":")),
                               None, comment)
                 ELSE CommentOrScriptLine(line)
       ELSE IF ~contains(content_part, " ") /\ content_part # ""
                 /\ ~starts_with(content_part, "-")
            THEN ArgumentFrom(ArgumentShape(strip_suffix_or_self(content_part, ":")), comment)
            ELSE CommentOrScriptLine(line)

\* the indented-declaration rule, given the line's content and where its comment starts
IndentedContent(line, content, comment_start) ==
  IndentedDecl(line, ContentPart(content, comment_start),
               TrimEach(split(ContentPart(content, comment_start), ",")),
               CommentPart(content, comment_start))

\* the indented-declaration rule of parse_line
IndentedLine(line) == IndentedContent(line, trim(line), find(trim(line), " # "))

parse_line(line) ==
  IF trim(line) = ""
  THEN Ok(None)
  ELSE IF is_command_line(line)
       THEN ParseCommandHeader(line, None)
       ELSE IF starts_with(line, "  ") /\ ~starts_with(line, "   ")
                 /\ (~starts_with(trim(line), "#") \/ starts_with(trim(line), "#!/"))
            THEN IndentedLine(line)
            ELSE CommentOrScriptLine(line)

parse_line_with_comment(line, comment) ==
  IF trim(line) = ""
  THEN Ok(None)
  ELSE IF is_command_line(line)
       THEN ParseCommandHeader(line, comment)
       ELSE parse_line(line)

\* is_group_name of the look-behind loop: line j (1-based) lies between two separators
IsGroupName(lines, j) ==
  /\ j - 1 > 0
  /\ j < Len(lines)
  /\ is_separator_line(trim(lines[j - 1]))
  /\ is_separator_line(trim(lines[j + 1]))

RECURSIVE CommentLinesAbove(_, _, _)
\* the look-behind loop of tokenize: the comment texts above line j (0-based), top first
CommentLinesAbove(lines, j, comment_lines) ==
  IF j = 0
  THEN comment_lines
  ELSE IF starts_with(trim(lines[j]), "#")
       THEN IF ~is_separator_line(trim(lines[j])) /\ ~IsGroupName(lines, j)
            THEN CommentLinesAbove(lines, j - 1,
                   <<trim(strip_prefix(trim(lines[j]), "#"))>> \o comment_lines)
            ELSE CommentLinesAbove(lines, j - 1, comment_lines)
       ELSE comment_lines

RECURSIVE FoundCommand(_, _)
\* the look-ahead loop of tokenize from line j (0-based): does a command header follow
FoundCommand(lines, j) ==
  IF j >= Len(lines)
  THEN FALSE
  ELSE IF trim(lines[j + 1]) = ""
       THEN FoundCommand(lines, j + 1)
       ELSE IF starts_with(trim(lines[j + 1]), "#") /\ ~is_separator_line(trim(lines[j + 1]))
            THEN FoundCommand(lines, j + 1)
            ELSE is_command_line(trim(lines[j + 1]))

\* a joining that puts nothing between the comment texts
JoinedCommentUnspaced(comment_lines) ==
  IF comment_lines = <<>> THEN None ELSE Some(join(comment_lines, ""))

\* the description a header gets from the comment lines above it
JoinedComment(comment_lines) ==
  IF comment_lines = <<>> THEN None ELSE Some(join(comment_lines, " "))

\* a group header test that does not look at the third line
IsGroupHeaderOpen(lines, i) ==
  /\ is_separator_line(trim(lines[i + 1]))
  /\ i + 2 < Len(lines)
  /\ starts_with(trim(lines[i + 2]), "# ")

\* the multi-line group header test of tokenize at line i (0-based)
IsGroupHeader(lines, i) ==
  /\ is_separator_line(trim(lines[i + 1]))
  /\ i + 2 < Len(lines)
  /\ starts_with(trim(lines[i + 2]), "# ")
  /\ is_separator_line(trim(lines[i + 3]))

RECURSIVE TokenizeLoop(_, _, _), PushToken(_, _, _, _)
\* the main loop of tokenize from line i (0-based)
TokenizeLoop(lines, i, tokens) ==
  IF i >= Len(lines)
  THEN Ok(tokens)
  ELSE IF IsGroupHeader(lines, i)
       THEN TokenizeLoop(lines, i + 3,
              Append(tokens, GroupHeader(trim(strip_prefix(trim(lines[i + 2]), "# ")))))
       ELSE IF is_command_line(lines[i + 1])
            THEN PushToken(lines, i, tokens,
                   parse_line_with_comment(lines[i + 1],
                     JoinedComment(CommentLinesAbove(lines, i, <<>>))))
            ELSE IF /\ starts_with(trim(lines[i + 1]), "#")
                    /\ ~is_separator_line(trim(lines[i + 1]))
                    /\ ~starts_with(trim(lines[i + 1]), "#!/")
                    /\ FoundCommand(lines, i + 1)
                 THEN TokenizeLoop(lines, i + 1, tokens)
                 ELSE PushToken(lines, i, tokens, parse_line(lines[i + 1]))

\* `let token = ...?; if let Some(token) = token { tokens.push(token) }; i += 1`
PushToken(lines, i, tokens, token) ==
  IF ~token.ok THEN token ELSE TokenizeLoop(lines, i + 1, tokens \o token.val)

\* the argument is content.lines()
tokenize(lines) == TokenizeLoop(lines, 0, <<>>)

(***************************************************************************)
(* Parser: phases/parse.rs                                                 *)
(***************************************************************************)
Group(name) == [name |-> name]

Argument(name, optional, is_varargs, description) ==
  [name |-> name, optional |-> optional, is_varargs |-> is_varargs,
   description |-> description]

Flag(short, long, takes_value, type_hint, description) ==
  [short |-> short, long |-> long, takes_value |-> takes_value,
   type_hint |-> type_hint, description |-> description]

DefaultShebang == "#!/bin/sh"

RECURSIVE InlineArgsToArguments(_)
InlineArgsToArguments(inline_args) ==
  IF inline_args = <<>>
  THEN <<>>
  ELSE <<Argument(inline_args[1][1], inline_args[1][2], inline_args[1][3], None)>>
         \o InlineArgsToArguments(Tail(inline_args))

RECURSIVE InlineFlagsToFlags(_)
InlineFlagsToFlags(inline_flags) ==
  IF inline_flags = <<>>
  THEN <<>>
  ELSE <<Flag(inline_flags[1][2], inline_flags[1][1], inline_flags[1][3],
              inline_flags[1][4], None)>>
         \o InlineFlagsToFlags(Tail(inline_flags))

\* script.push('\n') unless the script is empty, then script.push_str(text)
PushScript(script, text) == IF script # "" THEN script \o "\n" \o text ELSE text

\* the parser's running state before the first token
ParseStart ==
  [groups |-> <<>>, commands |-> <<>>, current_group |-> None,
   current_command |-> None, in_script |-> FALSE]

\* commands.push(cmd) of the command under construction, if any
SaveCurrent(st) ==
  IF st.current_command # None
  THEN Append(st.commands, st.current_command[1])
  ELSE st.commands

\* a faulty variant of FlagAsScript: the short name is left out
FlagAsScriptLong(token) == "--" \o token.long_name

\* the flag rendered back as script text: short.unwrap_or(' ')
FlagAsScript(token) ==
  "-" \o (IF token.short = None THEN " " ELSE token.short[1]) \o ", --" \o token.long_name

\* one iteration of the token loop of parse
ParseToken(st, token) ==
  LET cmd == st.current_command[1]
  IN CASE token.type = "GroupHeader" ->
            [st EXCEPT !.commands = SaveCurrent(st),
                       !.current_command = None,
                       !.current_group = Some(token.name),
                       !.groups = Append(st.groups, Group(token.name)),
                       !.in_script = FALSE]
       [] token.type = "CommandName" ->
            [st EXCEPT !.commands = SaveCurrent(st),
                       !.current_command =
                          Some([names |-> token.name,
                                description |-> token.comment,
                                group |-> st.current_group,
                                args |-> InlineArgsToArguments(token.inline_args),
                                flags |-> InlineFlagsToFlags(token.inline_flags),
                                script |-> "",
                                shebang |-> DefaultShebang]),
                       !.in_script = FALSE]
       [] token.type = "Argument" ->
            IF st.current_command = None
            THEN st
            ELSE IF ~st.in_script
                 THEN [st EXCEPT !.current_command =
                         Some([cmd EXCEPT !.args =
                           Append(cmd.args, Argument(token.name, token.optional,
                                                     token.is_varargs, token.comment))])]
                 ELSE [st EXCEPT !.current_command =
                         Some([cmd EXCEPT !.script = PushScript(cmd.script, token.name)])]
       [] token.type = "Flag" ->
            IF st.current_command = None
            THEN st
            ELSE IF ~st.in_script
                 THEN [st EXCEPT !.current_command =
                         Some([cmd EXCEPT !.flags =
                           Append(cmd.flags, Flag(token.short, token.long_name,
                                                  token.takes_value, token.type_hint,
                                                  token.comment))])]
                 ELSE [st EXCEPT !.current_command =
                         Some([cmd EXCEPT !.script = PushScript(cmd.script, FlagAsScript(token))])]
       [] token.type = "ScriptLine" ->
            IF st.current_command = None
            THEN st
            ELSE [st EXCEPT !.current_command =
                    Some([cmd EXCEPT
                      !.shebang = IF ~st.in_script /\ starts_with(trim(token.content), "#!")
                                  THEN trim(token.content)
                                  ELSE cmd.shebang,
                      !.script = PushScript(cmd.script, token.content)]),
                   !.in_script = TRUE]
       [] token.type = "Comment" ->
            IF st.current_command = None
            THEN st
            ELSE [st EXCEPT !.current_command =
                    Some([cmd EXCEPT !.script = PushScript(cmd.script, token.content)]),
                   !.in_script = TRUE]

RECURSIVE ParseLoop(_, _)
ParseLoop(st, tokens) ==
  IF tokens = <<>> THEN st ELSE ParseLoop(ParseToken(st, tokens[1]), Tail(tokens))

RECURSIVE NonEmptyGroups(_)
\* groups.filter(|group| !group.name.is_empty())
NonEmptyGroups(groups) ==
  IF groups = <<>>
  THEN <<>>
  ELSE (IF groups[1].name # "" THEN <<groups[1]>> ELSE <<>>) \o NonEmptyGroups(Tail(groups))

\* the Runfile built from a token sequence; the Rust function never returns Err
parse(tokens) ==
  LET st == ParseLoop(ParseStart, tokens)
  IN [groups |-> NonEmptyGroups(st.groups), commands |-> SaveCurrent(st)]

(***************************************************************************)
(* Help text: Runfile::generate_help with colors = false, as the lines     *)
(* that generate_help_output_to_buffer writes, one writeln each.           *)
(***************************************************************************)
RECURSIVE repeat(_, _)
\* str::repeat; also usize::saturating_sub of the count: nothing is repeated below 1
repeat(s, n) == IF n <= 0 THEN "" ELSE s \o repeat(s, n - 1)

\* Option::unwrap_or
unwrap_or(option, default) == IF option = None THEN default ELSE option[1]

\* the closure format_description, without colors
format_description(description) == IF description = "" THEN "" ELSE " # " \o description

\* grouped_commands.get(name): the commands filed under the name, in document order;
\* a command without a group is filed under `General`
grouped_commands(commands, name) ==
  SelectSeq(commands, LAMBDA c : unwrap_or(c.group, "General") = name)

command_display(cmd) == IF cmd.names # <<>> THEN join(cmd.names, ", ") ELSE ""

arg_display(arg) ==
  IF arg.is_varargs
  THEN "..." \o arg.name
  ELSE IF arg.optional THEN arg.name \o "?" ELSE arg.name

flag_display(flag) ==
  IF flag.short # None
  THEN "-" \o flag.short[1] \o ", --" \o flag.long
  ELSE "--" \o flag.long

\* the widest command (indented by 2) or parameter (indented by 4), rounded up to even
align_point(commands) ==
  LET widths ==
        {2, 4}
          \cup {2 + Len(command_display(commands[n])) : n \in 1..Len(commands)}
          \cup UNION {{4 + Len(arg_display(commands[n].args[k])) :
                         k \in 1..Len(commands[n].args)} : n \in 1..Len(commands)}
          \cup UNION {{4 + Len(flag_display(commands[n].flags[k])) :
                         k \in 1..Len(commands[n].flags)} : n \in 1..Len(commands)}
  IN (((CHOOSE m \in widths : \A w \in widths : w <= m) + 1) \div 2) * 2

\* one writeln of an item: padded up to its description, or bare when it has none
HelpLine(indent, display, description, point) ==
  IF description = ""
  THEN indent \o display
  ELSE indent \o display \o repeat(" ", point - Len(display)) \o format_description(description)

\* the lines of one command: the command, its arguments, its flags
CommandLines(cmd, indent, point) ==
  <<HelpLine(indent, command_display(cmd), unwrap_or(cmd.description, ""), point)>>
    \o [k \in 1..Len(cmd.args) |->
          HelpLine(indent \o "  ", arg_display(cmd.args[k]),
                   unwrap_or(cmd.args[k].description, ""), point)]
    \o [k \in 1..Len(cmd.flags) |->
          HelpLine(indent \o "  ", flag_display(cmd.flags[k]),
                   unwrap_or(cmd.flags[k].description, ""), point)]

RECURSIVE CommandsLines(_, _, _)
\* `for command in commands`
CommandsLines(commands, indent, point) ==
  IF commands = <<>>
  THEN <<>>
  ELSE CommandLines(commands[1], indent, point) \o CommandsLines(Tail(commands), indent, point)

RECURSIVE GroupsLines(_, _, _)
\* `for group in &self.groups`: the name, the commands filed under it, a blank line
GroupsLines(groups, commands, point) ==
  IF groups = <<>>
  THEN <<>>
  ELSE (IF grouped_commands(commands, groups[1].name) # <<>>
        THEN <<groups[1].name>>
               \o CommandsLines(grouped_commands(commands, groups[1].name), "  ", point)
               \o <<"">>
        ELSE <<>>)
         \o GroupsLines(Tail(groups), commands, point)

\* the help text of a Runfile, line by line
generate_help(document) ==
  IF document.commands = <<>>
  THEN <<"">>
  ELSE CommandsLines(grouped_commands(document.commands, "General"), "",
                     align_point(document.commands) - 1)
         \o GroupsLines(document.groups, document.commands,
                        align_point(document.commands) - 1)

(***************************************************************************)
(* Resolver: phases/resolve.rs                                             *)
(***************************************************************************)
RECURSIVE ArgLoop(_, _, _)
\* the argument loop of validate_command: the first repeated name, if any
ArgLoop(args, k, arg_names) ==
  IF k > Len(args)
  THEN None
  ELSE IF args[k].name \in arg_names
       THEN Some(args[k].name)
       ELSE ArgLoop(args, k + 1, arg_names \cup {args[k].name})

RECURSIVE FlagLoop(_, _, _)
\* the flag loop of validate_command: the first key that is already taken, if any
FlagLoop(flags, k, flag_names) ==
  IF k > Len(flags)
  THEN None
  ELSE LET flag == flags[k]
       IN IF flag.long \in flag_names
          THEN Some("Duplicate flag name: " \o flag.long)
          ELSE IF flag.short # None
               THEN IF flag.short[1] \in (flag_names \cup {flag.long})
                    THEN Some("Duplicate short flag: -" \o flag.short[1])
                    ELSE FlagLoop(flags, k + 1, flag_names \cup {flag.long, flag.short[1]})
               ELSE FlagLoop(flags, k + 1, flag_names \cup {flag.long})

\* the indices (1-based) of the variadic arguments
Varargs(args) == {k \in 1..Len(args) : args[k].is_varargs}

\* a faulty variant of varargs_count: a flag that one was seen, not a count
varargs_seen(args) == IF Varargs(args) = {} THEN 0 ELSE 1

\* varargs_count when the argument loop ends
varargs_count(args) == Cardinality(Varargs(args))

\* varargs_position when the argument loop ends: Some(i) of the last variadic, 0-based
varargs_position(args) ==
  IF Varargs(args) = {}
  THEN None
  ELSE Some((CHOOSE k \in Varargs(args) : \A j \in Varargs(args) : j <= k) - 1)

\* a validation that looks at the flags before it looks at the variadic arguments
ValidateCommandFlagsFirst(command, dup, position, dupflag) ==
  IF dup # None
  THEN Err("DuplicateArgument", "Duplicate argument name: " \o dup[1])
  ELSE IF dupflag # None
       THEN Err("DuplicateFlag", dupflag[1])
       ELSE IF varargs_count(command.args) > 1
            THEN Err("MultipleVarargs", "Only one varargs argument (...args) is allowed")
            ELSE IF position # None /\ position[1] # Len(command.args) - 1
                 THEN Err("VarargsNotLast",
                          "Varargs argument (...args) must be the last argument")
                 ELSE IF trim(command.script) = ""
                      THEN Err("EmptyScript",
                               "Command '" \o command.names[1] \o "' has no script body")
                      ELSE Ok(command)

\* validate_command once its two loops have run
ValidateCommand(command, dup, position, dupflag) ==
  IF dup # None
  THEN Err("DuplicateArgument", "Duplicate argument name: " \o dup[1])
  ELSE IF varargs_count(command.args) > 1
       THEN Err("MultipleVarargs", "Only one varargs argument (...args) is allowed")
       ELSE IF position # None /\ position[1] # Len(command.args) - 1
            THEN Err("VarargsNotLast", "Varargs argument (...args) must be the last argument")
            ELSE IF dupflag # None
                 THEN Err("DuplicateFlag", dupflag[1])
                 ELSE IF trim(command.script) = ""
                      THEN Err("EmptyScript",
                               "Command '" \o command.names[1] \o "' has no script body")
                      ELSE Ok(command)

validate_command(command) ==
  ValidateCommand(command, ArgLoop(command.args, 1, {}), varargs_position(command.args),
                  FlagLoop(command.flags, 1, {}))

\* a lookup that matches the first name of a command only
HasFirstName(cmd, target_command) == cmd.names[1] = target_command

\* cmd.names.contains(&target_command.to_string())
HasName(cmd, target_command) == \E n \in 1..Len(cmd.names) : cmd.names[n] = target_command

resolve(runfile, target_command) ==
  IF \E k \in 1..Len(runfile.commands) : HasName(runfile.commands[k], target_command)
  THEN validate_command(
         runfile.commands[CHOOSE k \in 1..Len(runfile.commands) :
                            /\ HasName(runfile.commands[k], target_command)
                            /\ \A j \in 1..(k - 1) :
                                 ~HasName(runfile.commands[j], target_command)])
  ELSE Err("CommandNotFound", "Command '" \o target_command \o "' not found")

(***************************************************************************)
(* Invoker: phases/run.rs                                                  *)
(***************************************************************************)
\* HashMap::insert
Insert(map, key, value) ==
  [k \in DOMAIN map \cup {key} |-> IF k = key THEN value ELSE map[k]]

EmptyMap == [k \in {} |-> ""]

\* Some(the first item of seq whose index is in hits), or None
FirstHit(seq, hits) ==
  IF hits = {} THEN None ELSE Some(seq[CHOOSE k \in hits : \A j \in hits : k <= j])

\* a faulty variant of FindLongFlag: the flag is found by its name alone
FindLongFlagByName(flags, flag_name, takes_value) ==
  FirstHit(flags, {k \in 1..Len(flags) : flags[k].long = flag_name})

\* command.flags.iter().find(|f| f.long == flag_name && f.takes_value == takes_value)
FindLongFlag(flags, flag_name, takes_value) ==
  FirstHit(flags, {k \in 1..Len(flags) :
                     flags[k].long = flag_name /\ flags[k].takes_value = takes_value})

\* command.flags.iter().find(|f| f.short == Some(short_char))
FindShortFlag(flags, short_char) ==
  FirstHit(flags, {k \in 1..Len(flags) : flags[k].short = Some(short_char)})

\* command.args.iter().position(|a| a.name == name), 0-based
PositionOf(args, name) ==
  (CHOOSE k \in 1..Len(args) :
     /\ args[k].name = name
     /\ \A j \in 1..(k - 1) : args[j].name # name) - 1

\* command.args.iter().find(|arg| arg.is_varargs): Some(the first variadic argument)
varargs_arg(command) == FirstHit(command.args, Varargs(command.args))

\* a faulty variant of SplitOffAndJoin: the values are joined with nothing between them
SplitOffAndJoinUnspaced(args, position) ==
  IF Len(args) > position
  THEN Append(SubSeq(args, 1, position), join(SubSeq(args, position + 1, Len(args)), ""))
  ELSE args

\* `provided_args.split_off(varargs_position)`, joined and pushed back
SplitOffAndJoin(args, position) ==
  IF Len(args) > position
  THEN Append(SubSeq(args, 1, position), join(SubSeq(args, position + 1, Len(args)), " "))
  ELSE args

\* the variadic branch that ends parse_cli_args
CollectedArgs(command, args) ==
  IF varargs_arg(command) # None
  THEN SplitOffAndJoin(args, PositionOf(command.args, varargs_arg(command)[1].name))
  ELSE args

\* the index (0-based) validate_required_args looks an argument up at
ArgIndex(command, arg) == PositionOf(command.args, arg.name)

\* a faulty variant of validate_required_args: `>` where the code has `>=`
validate_required_args_off_by_one(command, args) ==
  LET missing == {k \in 1..Len(command.args) :
                    /\ ~command.args[k].optional
                    /\ ArgIndex(command, command.args[k]) > Len(args)}
  IN IF missing = {}
     THEN Ok(<<>>)
     ELSE Err("MissingRequiredArgument",
              "Required argument '"
                \o command.args[CHOOSE k \in missing : \A j \in missing : k <= j].name
                \o "' not provided")

validate_required_args(command, args) ==
  LET missing == {k \in 1..Len(command.args) :
                    /\ ~command.args[k].optional
                    /\ ArgIndex(command, command.args[k]) >= Len(args)}
  IN IF missing = {}
     THEN Ok(<<>>)
     ELSE Err("MissingRequiredArgument",
              "Required argument '"
                \o command.args[CHOOSE k \in missing : \A j \in missing : k <= j].name
                \o "' not provided")

RECURSIVE EnvArgsSurplus(_, _, _, _)
\* a faulty variant of EnvArgs: the values beyond the declared arguments get the key `rest`
EnvArgsSurplus(command, args, k, env) ==
  IF k > Len(command.args)
  THEN IF Len(args) > Len(command.args) THEN Insert(env, "rest", args[Len(args)]) ELSE env
  ELSE IF k <= Len(args)
       THEN EnvArgsSurplus(command, args, k + 1,
                           Insert(Insert(env, to_uppercase(command.args[k].name), args[k]),
                                  command.args[k].name, args[k]))
       ELSE EnvArgsSurplus(command, args, k + 1, env)

RECURSIVE EnvArgs(_, _, _, _)
\* the argument loop of run, from argument k (1-based)
EnvArgs(command, args, k, env) ==
  IF k > Len(command.args)
  THEN env
  ELSE IF k <= Len(args)
       THEN EnvArgs(command, args, k + 1,
                    Insert(Insert(env, to_uppercase(command.args[k].name), args[k]),
                           command.args[k].name, args[k]))
       ELSE EnvArgs(command, args, k + 1, env)

\* the literal recorded under the original-case key of a matched boolean flag
BooleanFlagString(flag) ==
  IF flag.short # None THEN "-" \o flag.short[1] ELSE "--" \o flag.long

RECURSIVE EnvFlags(_, _, _, _, _)
\* the flag loop of run, from flag k (1-based)
EnvFlags(command, flags_set, flag_values, k, env) ==
  IF k > Len(command.flags)
  THEN env
  ELSE LET flag == command.flags[k]
       IN IF flag.long \in DOMAIN flag_values
          THEN EnvFlags(command, flags_set, flag_values, k + 1,
                 Insert(Insert(env, to_uppercase(flag.long), flag_values[flag.long]),
                        flag.long, "--" \o flag.long \o "=" \o flag_values[flag.long]))
          ELSE IF flag.long \in flags_set
               THEN EnvFlags(command, flags_set, flag_values, k + 1,
                      Insert(Insert(env, to_uppercase(flag.long), "true"),
                             flag.long, BooleanFlagString(flag)))
               ELSE EnvFlags(command, flags_set, flag_values, k + 1, env)

\* the interpreter execute_script runs
Shell(command) ==
  IF starts_with(command.shebang, "#!")
  THEN trim(strip_prefix(command.shebang, "#!"))
  ELSE "sh"

\* enum OutputMode
Inherit == "Inherit"

Capture == "Capture"

(***************************************************************************)
(* The pipeline of Pipeline::execute_command as a state machine.           *)
(***************************************************************************)
VARIABLES
  lines,                 \* the Runfile's text, as content.lines()
  target_command,        \* the command name given on the command line
  pc,                    \* the phase the pipeline is in
  tokens,                \* the lexer's output
  runfile,               \* the parser's output
  command,               \* the resolver's output
  cli_args,              \* the argument vector handed to RunPhase::run
  i,                     \* parse_cli_args: the scan index, 0-based
  provided_args,         \* parse_cli_args: positional values
  provided_flags,        \* parse_cli_args: matched boolean flags
  provided_flag_values,  \* parse_cli_args: matched value flags
  env_vars,              \* run: the environment of the child
  spawned,               \* whether a child process has been started
  mode,                  \* the OutputMode handed to RunPhase::run, once it is entered
  status,                \* the exit code of the child, once it has exited with one
  result                 \* None while running, then Some(Ok) or Some(Err)

vars ==
  <<lines, target_command, pc, tokens, runfile, command, cli_args, i, provided_args,
    provided_flags, provided_flag_values, env_vars, spawned, mode, status, result>>

input == <<lines, target_command>>

front == <<tokens, runfile, command>>

binding == <<cli_args, i, provided_args, provided_flags, provided_flag_values>>

child == <<spawned, mode, status>>

\* a phase returned Err: the `?` of the pipeline propagates it
Fail(e) == pc' = "done" /\ result' = Some(e)

\* `let tokens = self.tokenize.tokenize(&content)?`
Tokenized(r) ==
  IF r.ok
  THEN tokens' = r.val /\ pc' = "parse" /\ UNCHANGED result
  ELSE Fail(r) /\ UNCHANGED tokens

\* pipeline.rs 78-79
Tokenize ==
  /\ pc = "tokenize"
  /\ Tokenized(tokenize(lines))
  /\ UNCHANGED <<input, runfile, command, binding, env_vars, child>>

\* pipeline.rs 80-81
Parse ==
  /\ pc = "parse"
  /\ runfile' = parse(tokens)
  /\ pc' = "resolve"
  /\ UNCHANGED <<input, tokens, command, binding, env_vars, child, result>>

\* `let command = self.resolve.resolve(runfile, command_name)?`
Resolved(r) ==
  IF r.ok
  THEN command' = r.val /\ pc' = "run" /\ UNCHANGED result
  ELSE Fail(r) /\ UNCHANGED command

\* pipeline.rs 82-83
Resolve ==
  /\ pc = "resolve"
  /\ Resolved(resolve(runfile, target_command))
  /\ UNCHANGED <<input, tokens, runfile, binding, env_vars, child>>

\* a positional value or a flag token the caller may pass for this command
CliTokens(cmd) ==
  {"x", "y", "--bogus", "-z"}
    \cup {"--" \o cmd.flags[k].long : k \in 1..Len(cmd.flags)}
    \cup {"--" \o cmd.flags[k].long \o "=k=v" : k \in 1..Len(cmd.flags)}
    \cup {"-" \o cmd.flags[k].short[1] :
            k \in {j \in 1..Len(cmd.flags) : cmd.flags[j].short # None}}

MaxCliArgs == 2

CliVectors(cmd) == UNION {[1..n -> CliTokens(cmd)] : n \in 0..MaxCliArgs}

\* run.rs 26-28 and 64-69: run is entered with the caller's argument vector
RunStart ==
  /\ pc = "run"
  /\ \E args \in CliVectors(command) : cli_args' = args
  /\ i' = 0
  /\ provided_args' = <<>>
  /\ provided_flags' = {}
  /\ provided_flag_values' = EmptyMap
  /\ mode' = Some(Capture)
  /\ pc' = "scan"
  /\ UNCHANGED <<input, front, env_vars, spawned, status, result>>

\* run.rs 72-89: `--name=value`
ScanValueFlag ==
  /\ pc = "scan" /\ i < Len(cli_args)
  /\ LET arg == cli_args[i + 1]
         parts == splitn2(arg, "=")
         flag_name == strip_prefix(parts[1], "--")
         flag == FindLongFlag(command.flags, flag_name, TRUE)
     IN /\ starts_with(arg, "--") /\ contains(arg, "=")
        /\ IF Len(parts) = 2
           THEN IF flag # None
                THEN /\ provided_flag_values' =
                          Insert(provided_flag_values, flag[1].long, parts[2])
                     /\ i' = i + 1
                     /\ UNCHANGED <<pc, result>>
                ELSE /\ Fail(Err("UnknownFlag", "Unknown value flag: --" \o flag_name))
                     /\ UNCHANGED <<i, provided_flag_values>>
           ELSE /\ i' = i + 1
                /\ UNCHANGED <<pc, result, provided_flag_values>>
  /\ UNCHANGED <<input, front, cli_args, provided_args, provided_flags, env_vars, child>>

\* run.rs 90-102: `--name`
ScanBooleanFlag ==
  /\ pc = "scan" /\ i < Len(cli_args)
  /\ LET arg == cli_args[i + 1]
         flag_name == strip_prefix(arg, "--")
         flag == FindLongFlag(command.flags, flag_name, FALSE)
     IN /\ starts_with(arg, "--") /\ ~contains(arg, "=")
        /\ IF flag # None
           THEN /\ provided_flags' = provided_flags \cup {flag[1].long}
                /\ i' = i + 1
                /\ UNCHANGED <<pc, result>>
           ELSE /\ Fail(Err("UnknownFlag", "Unknown flag: --" \o flag_name))
                /\ UNCHANGED <<i, provided_flags>>
  /\ UNCHANGED <<input, front, cli_args, provided_args, provided_flag_values, env_vars, child>>

\* a faulty variant of SkipValue: the value is left for the scan to read again
KeepValue(k) == k

\* `i += 1; // Skip the value argument`
SkipValue(k) == k + 1

\* run.rs 103-122: `-c`
ScanShortFlag ==
  /\ pc = "scan" /\ i < Len(cli_args)
  /\ LET arg == cli_args[i + 1]
         short_char == CharAt(arg, 2)
         flag == FindShortFlag(command.flags, short_char)
     IN /\ ~starts_with(arg, "--") /\ starts_with(arg, "-") /\ Len(arg) = 2
        /\ IF flag # None
           THEN IF flag[1].takes_value
                THEN IF i + 1 < Len(cli_args)
                     THEN /\ provided_flag_values' =
                               Insert(provided_flag_values, flag[1].long, cli_args[i + 2])
                          /\ i' = SkipValue(i) + 1
                          /\ UNCHANGED <<pc, result, provided_flags>>
                     ELSE /\ Fail(Err("MissingFlagValue",
                                      "Flag -" \o short_char \o " requires a value"))
                          /\ UNCHANGED <<i, provided_flags, provided_flag_values>>
                ELSE /\ provided_flags' = provided_flags \cup {flag[1].long}
                     /\ i' = i + 1
                     /\ UNCHANGED <<pc, result, provided_flag_values>>
           ELSE /\ Fail(Err("UnknownFlag", "Unknown short flag: -" \o short_char))
                /\ UNCHANGED <<i, provided_flags, provided_flag_values>>
  /\ UNCHANGED <<input, front, cli_args, provided_args, env_vars, child>>

\* run.rs 123-126: a positional value
ScanPositional ==
  /\ pc = "scan" /\ i < Len(cli_args)
  /\ LET arg == cli_args[i + 1]
     IN /\ ~starts_with(arg, "--") /\ ~(starts_with(arg, "-") /\ Len(arg) = 2)
        /\ provided_args' = Append(provided_args, arg)
  /\ i' = i + 1
  /\ UNCHANGED <<input, front, cli_args, provided_flags, provided_flag_values, env_vars,
                 child, pc, result>>

\* run.rs 129-143: the scan is over; the variadic argument collects its values
CollectVarargs ==
  /\ pc = "scan" /\ i >= Len(cli_args)
  /\ provided_args' = CollectedArgs(command, provided_args)
  /\ pc' = "validate"
  /\ UNCHANGED <<input, front, cli_args, i, provided_flags, provided_flag_values, env_vars,
                 child, result>>

\* a faulty variant of Validated: the check's error is dropped, run goes on
ValidatedUnchecked(r) == pc' = "env" /\ UNCHANGED result

\* `self.validate_required_args(&command, &provided_args)?`
Validated(r) == IF r.ok THEN pc' = "env" /\ UNCHANGED result ELSE Fail(r)

\* run.rs 30
ValidateRequiredArgs ==
  /\ pc = "validate"
  /\ Validated(validate_required_args(command, provided_args))
  /\ UNCHANGED <<input, front, binding, env_vars, child>>

\* run.rs 32-59
AssembleEnv ==
  /\ pc = "env"
  /\ env_vars' = EnvFlags(command, provided_flags, provided_flag_values, 1,
                          EnvArgs(command, provided_args, 1, EmptyMap))
  /\ pc' = "execute"
  /\ UNCHANGED <<input, front, binding, child, result>>

\* what becomes of the child: it cannot be started, or it ends with an exit code
\* (a child killed by a signal has no code: status.code().unwrap_or(-1))
ChildOutcomes == {"spawn_error", "exit_0", "exit_1", "exit_2", "signal"}

\* status.code() of the child: None when it was ended by a signal or never started
Code(outcome) ==
  CASE outcome = "exit_0" -> Some("0")
    [] outcome = "exit_1" -> Some("1")
    [] outcome = "exit_2" -> Some("2")
    [] OTHER -> None

\* what execute_script returns for an outcome of the child
ScriptResult(outcome, code) ==
  IF outcome = "spawn_error"
  THEN Err("SpawnError", "spawn failed")
  ELSE IF outcome = "exit_0"
       THEN Ok(Shell(command))
       ELSE Err("CommandFailed",
                "Command failed with exit code: " \o (IF code = None THEN "-1" ELSE code[1]))

\* run.rs 160-204: both modes run the child and test status.success() alike
ExecuteScript ==
  /\ pc = "execute"
  /\ mode \in {Some(Inherit), Some(Capture)}
  /\ \E outcome \in ChildOutcomes :
       /\ spawned' = (outcome # "spawn_error")
       /\ status' = Code(outcome)
       /\ result' = Some(ScriptResult(outcome, Code(outcome)))
  /\ pc' = "done"
  /\ UNCHANGED <<input, front, binding, env_vars, mode>>

\* main.rs 4-18: main returns the pipeline's error, if any, and the process ends on it:
\* exit code 0 on Ok(()), the failure code 1 on Err
ExitCode(r) == IF r.ok THEN "0" ELSE "1"

Next ==
  \/ Tokenize
  \/ Parse
  \/ Resolve
  \/ RunStart
  \/ ScanValueFlag
  \/ ScanBooleanFlag
  \/ ScanShortFlag
  \/ ScanPositional
  \/ CollectVarargs
  \/ ValidateRequiredArgs
  \/ AssembleEnv
  \/ ExecuteScript

(***************************************************************************)
(* The Runfiles and invocations the pipeline is checked on.                *)
(***************************************************************************)
\* the declaration shapes of an argument
ArgDecls == {"a", "c", "b?", "...r", "s..."}

\* the most declarations (arguments and flags) a header carries
MaxDecls == 2

ArgLists == UNION {[1..n -> ArgDecls] : n \in 0..MaxDecls}

\* the declaration shapes of a flag, in the order a header lists them
FlagDecls == <<"-o, --out=<f>", "-v, --verb", "--dry", "--OUT=<f>", "-x">>

RECURSIVE Chosen(_, _, _)
\* the items of seq whose index is in picks, in order, each after a space
Chosen(seq, picks, k) ==
  IF k > Len(seq)
  THEN ""
  ELSE (IF k \in picks THEN " " \o seq[k] ELSE "") \o Chosen(seq, picks, k + 1)

\* a one-command Runfile: every declaration inline on the header
Runfiles ==
  {<<"t" \o Chosen(args, DOMAIN args, 1) \o Chosen(FlagDecls, picks, 1) \o ":",
     "  echo hi">> :
     <<args, picks>> \in {ap \in ArgLists \X SUBSET DOMAIN FlagDecls :
                            Len(ap[1]) + Cardinality(ap[2]) <= MaxDecls}}

Init ==
  /\ lines \in Runfiles
  /\ target_command = "t"
  /\ pc = "tokenize"
  /\ tokens = <<>>
  /\ runfile = None
  /\ command = None
  /\ cli_args = <<>>
  /\ i = 0
  /\ provided_args = <<>>
  /\ provided_flags = {}
  /\ provided_flag_values = EmptyMap
  /\ env_vars = EmptyMap
  /\ spawned = FALSE
  /\ mode = None
  /\ status = None
  /\ result = None

Spec == Init /\ [][Next]_vars

(***************************************************************************)
(* The lexer and the parser alone, on headers whose declarations are       *)
(* written inline or as indented lines under the header.                   *)
(***************************************************************************)
\* the declaration shapes: required, optional, variadic; then the flag shapes
LexDecls == <<"a", "b?", "...r", "s...", "--dry", "--out=<f>", "-v, --verb", "-x">>

\* the declarations of LexDecls that declare an argument
LexArgs == {1, 2, 3, 4}

RECURSIVE BlockLines(_, _, _)
\* the items of seq whose index is in picks, in order, each on an indented line
BlockLines(seq, picks, k) ==
  IF k > Len(seq)
  THEN <<>>
  ELSE (IF k \in picks THEN <<"  " \o seq[k]>> ELSE <<>>) \o BlockLines(seq, picks, k + 1)

\* a one-command Runfile that declares the picked shapes, all inline or all indented
Render(picks, inline) ==
  IF inline
  THEN <<"t" \o Chosen(LexDecls, picks, 1) \o ":", "  echo hi">>
  ELSE <<"t:">> \o BlockLines(LexDecls, picks, 1) \o <<"  echo hi">>

LexPicks == {picks \in SUBSET DOMAIN LexDecls : Cardinality(picks) <= MaxDecls}

\* what may stand under a header: script text, a shebang, a comment, lines that read as
\* declarations, a group header, and lines that read as the header of a next command
BodyBlocks ==
  { <<"  echo hi">>, <<"  #!/bin/bash">>, <<"  # n">>, <<"  x">>, <<"  -v, --verb">>,
    <<"  --dry">>, <<"# ---", "# g", "# ---">>, <<"u:">>, <<" u:">>, <<"\tu:">>,
    <<"u: #x">>, <<"u # x">> }

\* the most blocks under a header
MaxBody == 3

RECURSIVE Bodies(_)
\* the bodies of at most n blocks
Bodies(n) ==
  IF n = 0
  THEN {<<>>}
  ELSE {<<>>} \cup {block \o body : block \in BodyBlocks, body \in Bodies(n - 1)}

LexRunfiles ==
  {Render(picks, inline) : picks \in LexPicks, inline \in BOOLEAN}
  \cup {<<"t:">> \o body : body \in Bodies(MaxBody)}

InitLex ==
  /\ lines \in LexRunfiles
  /\ target_command = "t"
  /\ pc = "tokenize"
  /\ tokens = <<>>
  /\ runfile = None
  /\ command = None
  /\ cli_args = <<>>
  /\ i = 0
  /\ provided_args = <<>>
  /\ provided_flags = {}
  /\ provided_flag_values = EmptyMap
  /\ env_vars = EmptyMap
  /\ spawned = FALSE
  /\ mode = None
  /\ status = None
  /\ result = None

NextLex ==
  \/ Tokenize
  \/ Parse

SpecLex == InitLex /\ [][NextLex]_vars

(***************************************************************************)
(* The lexer and the parser on whole Runfile texts: comment lines, group   *)
(* separators, headers, blank lines and script lines in any order.         *)
(***************************************************************************)
\* the lines a free text is made of
DocLines == {"# ---", "# c1", "#c2", "", "foo:", "  ls", "  # n", "  echo hi"}

\* the most lines of a free text
MaxLines == 4

\* the blocks a structured text is made of: group headers, headers, comments, scripts
DocBlocks ==
  { <<"# ---", "# c1", "# ---">>, <<"# ---", "# g2", "# ---">>, <<"foo:">>, <<"# c1">>,
    <<"  echo hi">>, <<":">>, <<"foo: # x">> }

\* the most blocks of a structured text
MaxBlocks == 4

RECURSIVE BlockTexts(_)
\* the texts of at most n blocks
BlockTexts(n) ==
  IF n = 0
  THEN {<<>>}
  ELSE {<<>>} \cup {block \o text : block \in DocBlocks, text \in BlockTexts(n - 1)}

Docs == UNION {[1..n -> DocLines] : n \in 0..MaxLines} \cup BlockTexts(MaxBlocks)

InitDoc ==
  /\ lines \in Docs
  /\ target_command = "foo"
  /\ pc = "tokenize"
  /\ tokens = <<>>
  /\ runfile = None
  /\ command = None
  /\ cli_args = <<>>
  /\ i = 0
  /\ provided_args = <<>>
  /\ provided_flags = {}
  /\ provided_flag_values = EmptyMap
  /\ env_vars = EmptyMap
  /\ spawned = FALSE
  /\ mode = None
  /\ status = None
  /\ result = None

NextDoc ==
  \/ Tokenize
  \/ Parse

SpecDoc == InitDoc /\ [][NextDoc]_vars

(***************************************************************************)
(* The pipeline up to the resolver, on one-command Runfiles whose header   *)
(* declares arguments and flags in any order, with or without a script,    *)
(* looked up by the command's name or by another name.                     *)
(***************************************************************************)
\* the declarations: a required and two variadic arguments, then flags whose keys meet
ResDecls == {"a", "...r", "s...", "--d", "-d, --dry", "-d, --dd", "-x"}

\* the most declarations on a header
MaxResDecls == 3

RECURSIVE Declared(_)
\* the declarations as written after the name on a header
Declared(decls) == IF decls = <<>> THEN "" ELSE " " \o decls[1] \o Declared(Tail(decls))

ResRunfiles ==
  {<<"t" \o Declared(decls) \o ":">> \o script :
     decls \in UNION {[1..n -> ResDecls] : n \in 0..MaxResDecls},
     script \in {<<>>, <<"  echo hi">>}}

InitRes ==
  /\ lines \in ResRunfiles
  /\ target_command \in {"t", "u"}
  /\ pc = "tokenize"
  /\ tokens = <<>>
  /\ runfile = None
  /\ command = None
  /\ cli_args = <<>>
  /\ i = 0
  /\ provided_args = <<>>
  /\ provided_flags = {}
  /\ provided_flag_values = EmptyMap
  /\ env_vars = EmptyMap
  /\ spawned = FALSE
  /\ mode = None
  /\ status = None
  /\ result = None

NextRes ==
  \/ Tokenize
  \/ Parse
  \/ Resolve

SpecRes == InitRes /\ [][NextRes]_vars

(***************************************************************************)
(* The lexer and the parser on headers with several names: the names are   *)
(* written with commas between them, parameters may follow the names.      *)
(***************************************************************************)
\* the names a command may be given
AliasNames == {"b", "c", "build"}

\* the most names of a header
MaxAliases == 2

\* what stands between two names: the comma trails the name, leads the next, or is alone
AliasCommas == {", ", " ,", ",", " , "}

\* what follows the names: nothing, an argument, an optional argument, a flag
AliasTails == {"", " x", " y?", " -v, --verb"}

RECURSIVE Named(_, _)
\* the names as written on a header, comma between each two
Named(names, comma) ==
  IF Len(names) = 1 THEN names[1] ELSE names[1] \o comma \o Named(Tail(names), comma)

\* a one-command Runfile whose header is the names and then the tail
AliasRunfile(names, comma, tail) == <<Named(names, comma) \o tail \o ":", "  echo hi">>

\* a Runfile of two commands, each under its names, told apart by their scripts
AliasPair(first, second) ==
  <<Named(first, ", ") \o ":", "  echo 1", Named(second, ", ") \o ":", "  echo 2">>

AliasRunfiles ==
  {AliasRunfile(names, comma, tail) :
     names \in UNION {[1..n -> AliasNames] : n \in 1..MaxAliases},
     comma \in AliasCommas, tail \in AliasTails}
  \cup
  {AliasPair(first, second) :
     first \in UNION {[1..n -> AliasNames] : n \in 1..MaxAliases},
     second \in UNION {[1..n -> AliasNames] : n \in 1..MaxAliases}}

InitAlias ==
  /\ lines \in AliasRunfiles
  /\ target_command \in AliasNames
  /\ pc = "tokenize"
  /\ tokens = <<>>
  /\ runfile = None
  /\ command = None
  /\ cli_args = <<>>
  /\ i = 0
  /\ provided_args = <<>>
  /\ provided_flags = {}
  /\ provided_flag_values = EmptyMap
  /\ env_vars = EmptyMap
  /\ spawned = FALSE
  /\ mode = None
  /\ status = None
  /\ result = None

NextAlias ==
  \/ Tokenize
  \/ Parse
  \/ Resolve

SpecAlias == InitAlias /\ [][NextAlias]_vars

(***************************************************************************)
(* What the properties speak of.                                           *)
(***************************************************************************)
\* the pipeline ended with an error of that kind
FailedWith(kind) == pc = "done" /\ result # None /\ ~result[1].ok /\ result[1].kind = kind

\* the pipeline ended in execute_script
Executed ==
  /\ pc = "done"
  /\ result # None
  /\ (result[1].ok \/ result[1].kind \in {"SpawnError", "CommandFailed"})

\* run has been entered: the command is resolved and the argument vector is given
Running == pc \in {"scan", "validate", "env", "execute"} \/ (pc = "done" /\ command # None)

\* the scan of parse_cli_args has read every token
ScanComplete == Running /\ pc # "scan" /\ i >= Len(cli_args)

\* the only command of the Runfile, once parsed
Target == runfile.commands[1]

DistinctNames(args) == \A j, k \in 1..Len(args) : j # k => args[j].name # args[k].name

\* a token of exactly `-<char>`
IsShortToken(tok) == Len(tok) = 2 /\ CharAt(tok, 1) = "-" /\ CharAt(tok, 2) # "-"

\* a token `--name=value`
IsValueToken(tok) ==
  Len(tok) >= 2 /\ SubSeq(tok, 1, 2) = "--" /\ \E k \in 1..Len(tok) : CharAt(tok, k) = "="

\* a token `--name`
IsToggleToken(tok) == Len(tok) >= 2 /\ SubSeq(tok, 1, 2) = "--" /\ ~IsValueToken(tok)

\* a token that is no flag
IsPositional(tok) == ~IsShortToken(tok) /\ ~IsValueToken(tok) /\ ~IsToggleToken(tok)

\* where the first `=` of a token is
FirstEq(tok) ==
  CHOOSE k \in 1..Len(tok) : CharAt(tok, k) = "=" /\ \A j \in 1..(k - 1) : CharAt(tok, j) # "="

\* the name of `--name=value` or `--name`
LongName(tok) ==
  IF IsValueToken(tok) THEN SubSeq(tok, 3, FirstEq(tok) - 1) ELSE SubSeq(tok, 3, Len(tok))

\* the value of `--name=value`: everything after the first `=`
RawValue(tok) == SubSeq(tok, FirstEq(tok) + 1, Len(tok))

\* the token is `-c` for the short key c of a declared takes-value flag
ShortValueToken(cmd, tok) ==
  /\ IsShortToken(tok)
  /\ \E n \in 1..Len(cmd.flags) :
       cmd.flags[n].short = Some(CharAt(tok, 2)) /\ cmd.flags[n].takes_value

RECURSIVE ScanPositions(_, _, _)
\* the indices (1-based) from k on of the tokens read as tokens of their own: the token
\* after the `-c` of a takes-value flag is that flag's value
ScanPositions(cmd, args, k) ==
  IF k > Len(args)
  THEN {}
  ELSE {k} \cup ScanPositions(cmd, args, IF ShortValueToken(cmd, args[k]) THEN k + 2 ELSE k + 1)

\* the tokens the caller's vector is read as
Scanned == ScanPositions(command, cli_args, 1)

RECURSIVE PositionalsFrom(_, _, _, _)
\* the positional tokens among the first upto tokens, from k on, in order
PositionalsFrom(cmd, args, k, upto) ==
  IF k > upto
  THEN <<>>
  ELSE IF ShortValueToken(cmd, args[k])
       THEN PositionalsFrom(cmd, args, k + 2, upto)
       ELSE (IF IsPositional(args[k]) THEN <<args[k]>> ELSE <<>>)
              \o PositionalsFrom(cmd, args, k + 1, upto)

\* the token names the flag, in its long or its short form
Binds(flag, tok) ==
  \/ IsShortToken(tok) /\ flag.short = Some(CharAt(tok, 2))
  \/ flag.takes_value /\ IsValueToken(tok) /\ LongName(tok) = flag.long
  \/ ~flag.takes_value /\ IsToggleToken(tok) /\ LongName(tok) = flag.long

\* the scan has read the token at index k (1-based)
Read(k) == k <= i

\* token k has been read and names the flag, and no token read after it does
LastBinding(flag, k) ==
  /\ k \in Scanned
  /\ Read(k)
  /\ Binds(flag, cli_args[k])
  /\ \A j \in Scanned : (k < j /\ Read(j)) => ~Binds(flag, cli_args[j])

\* the caller passed the flag
Passed(flag) == \E k \in Scanned : Read(k) /\ Binds(flag, cli_args[k])

\* the two environment keys of a name
KeysOf(name) == {name, to_uppercase(name)}

\* the two keys of flag n differ, and no flag declared after it and passed writes one
NoKeyClash(n) ==
  /\ to_uppercase(command.flags[n].long) # command.flags[n].long
  /\ \A m \in (n + 1)..Len(command.flags) :
       Passed(command.flags[m]) =>
         KeysOf(command.flags[m].long) \cap KeysOf(command.flags[n].long) = {}

\* the key is in the environment with that value
EnvHas(key, value) == key \in DOMAIN env_vars /\ env_vars[key] = value

\* the declared non-optional arguments whose slot holds no value
MissingSlots ==
  {k \in 1..Len(command.args) : ~command.args[k].optional /\ k > Len(provided_args)}

(***************************************************************************)
(* The properties.                                                         *)
(***************************************************************************)
\* C1: run starts the child only after parse_cli_args and the required-argument check
\* have both succeeded: a run that failed with UnknownFlag, MissingFlagValue or
\* MissingRequiredArgument has started no process, and a started process means the scan
\* read every token and the required-argument check passes.
C1_NoSpawnBeforeBinding ==
  /\ (\/ FailedWith("UnknownFlag")
      \/ FailedWith("MissingFlagValue")
      \/ FailedWith("MissingRequiredArgument")) => ~spawned
  /\ spawned => /\ ScanComplete
                /\ validate_required_args(command, provided_args).ok

C1_Witness == FailedWith("MissingRequiredArgument") /\ ~spawned /\ cli_args # <<>>

\* C2: a command with distinct argument names fails resolution with VarargsNotLast
\* when its one variadic argument is not declared last, and with MultipleVarargs when
\* it declares two or more variadic arguments.
C2_VarargsRules ==
  (pc \notin {"tokenize", "parse", "resolve"} /\ runfile # None /\ DistinctNames(Target.args)) =>
    /\ (/\ Cardinality({k \in 1..Len(Target.args) : Target.args[k].is_varargs}) = 1
        /\ ~Target.args[Len(Target.args)].is_varargs) => FailedWith("VarargsNotLast")
    /\ Cardinality({k \in 1..Len(Target.args) : Target.args[k].is_varargs}) >= 2
         => FailedWith("MultipleVarargs")

C2_Witness ==
  /\ runfile # None
  /\ DistinctNames(Target.args)
  /\ FailedWith("VarargsNotLast")

\* C3: a command whose only argument is variadic, invoked with no positional token,
\* never fails with MissingRequiredArgument, and once the scan has read every token the
\* run ends in execute_script.
C3_OnlyVariadicNoPositional ==
  (/\ Running
   /\ Len(command.args) = 1
   /\ command.args[1].is_varargs
   /\ \A k \in Scanned : ~IsPositional(cli_args[k])) =>
    /\ ~FailedWith("MissingRequiredArgument")
    /\ (pc = "done" /\ ScanComplete) => Executed

C3_Witness ==
  /\ Running
  /\ Len(command.args) = 1
  /\ command.args[1].is_varargs
  /\ \A k \in Scanned : ~IsPositional(cli_args[k])
  /\ Executed
  /\ spawned

\* C4: when the variadic argument is declared at position P and the caller passes
\* exactly P positional tokens, slot P is bound to the empty string and both environment
\* keys of the variadic argument are the empty string.
C4_EmptyVariadicSlot ==
  (/\ pc = "execute"
   /\ command.args # <<>>
   /\ command.args[Len(command.args)].is_varargs
   /\ Len(PositionalsFrom(command, cli_args, 1, Len(cli_args))) = Len(command.args) - 1) =>
    /\ Len(provided_args) = Len(command.args)
    /\ provided_args[Len(command.args)] = ""
    /\ EnvHas(command.args[Len(command.args)].name, "")
    /\ EnvHas(to_uppercase(command.args[Len(command.args)].name), "")

C4_Witness ==
  /\ pc = "execute"
  /\ Len(command.args) = 2
  /\ command.args[2].is_varargs
  /\ Len(PositionalsFrom(command, cli_args, 1, Len(cli_args))) = 1
  /\ Len(provided_args) = 1

\* C5 as the specification states it: every token `--long=value` read against a declared
\* takes-value flag leaves the key upper-case(long) at the raw value and the key long at
\* `--long=value`.
C5_ValueFlagEnv ==
  pc = "execute" =>
    \A n \in 1..Len(command.flags) : \A k \in Scanned :
      (/\ command.flags[n].takes_value
       /\ IsValueToken(cli_args[k])
       /\ LongName(cli_args[k]) = command.flags[n].long) =>
        /\ EnvHas(to_uppercase(command.flags[n].long), RawValue(cli_args[k]))
        /\ EnvHas(command.flags[n].long, cli_args[k])

\* C5, amended: the token `--long=value` that is the last to name a declared takes-value
\* flag leaves the key upper-case(long) at the raw value (everything after the first `=`)
\* and the key long at `--long=value`, when long is not its own upper case and no flag
\* declared later and passed writes either key.
C5_ValueFlagEnvUnclashed ==
  pc = "execute" =>
    \A n \in 1..Len(command.flags) : \A k \in Scanned :
      (/\ command.flags[n].takes_value
       /\ IsValueToken(cli_args[k])
       /\ LastBinding(command.flags[n], k)
       /\ NoKeyClash(n)) =>
        /\ EnvHas(to_uppercase(command.flags[n].long), RawValue(cli_args[k]))
        /\ EnvHas(command.flags[n].long, cli_args[k])

C5_Witness ==
  /\ pc = "execute"
  /\ Len(command.flags) = 2
  /\ Len(cli_args) = 2
  /\ \E n \in 1..Len(command.flags) : \E k \in Scanned :
       /\ command.flags[n].takes_value
       /\ IsValueToken(cli_args[k])
       /\ LastBinding(command.flags[n], k)
       /\ NoKeyClash(n)

\* C6: for every matched boolean flag the key upper-case(long) is `true` and the key long
\* is the token the caller passed, `-<short>` or `--<long>`; a declared flag that was
\* not passed contributes no key.
C6_BooleanFlagEnv ==
  pc = "execute" =>
    \A n \in 1..Len(command.flags) :
      /\ \A k \in Scanned :
           (/\ ~command.flags[n].takes_value
            /\ LastBinding(command.flags[n], k)
            /\ NoKeyClash(n)) =>
             /\ EnvHas(to_uppercase(command.flags[n].long), "true")
             /\ EnvHas(command.flags[n].long, cli_args[k])
      /\ (/\ ~Passed(command.flags[n])
          /\ \A m \in 1..Len(command.flags) :
               Passed(command.flags[m]) =>
                 KeysOf(command.flags[m].long) \cap KeysOf(command.flags[n].long) = {}
          /\ \A a \in 1..Len(command.args) :
               KeysOf(command.args[a].name) \cap KeysOf(command.flags[n].long) = {}) =>
           KeysOf(command.flags[n].long) \cap DOMAIN env_vars = {}

C6_Witness ==
  /\ pc = "execute"
  /\ \E n \in 1..Len(command.flags) :
       /\ ~command.flags[n].takes_value
       /\ command.flags[n].short # None
       /\ cli_args = <<"--" \o command.flags[n].long>>

\* C7: a token `--name` whose name is not the long name of a declared no-value flag, and
\* a token `--name=value` whose name is not the long name of a declared takes-value flag,
\* stops the scan where it stands with UnknownFlag naming it; so do `--name` for a
\* takes-value flag and `--name=v` for a boolean flag.
C7_UnknownFlag ==
  Running =>
    \A k \in Scanned :
      (/\ IsValueToken(cli_args[k]) \/ IsToggleToken(cli_args[k])
       /\ ~\E n \in 1..Len(command.flags) :
             /\ command.flags[n].long = LongName(cli_args[k])
             /\ command.flags[n].takes_value = IsValueToken(cli_args[k])) =>
        /\ ~Read(k)
        /\ pc = "scan" \/ FailedWith("UnknownFlag")
        /\ (pc = "done" /\ i = k - 1) =>
             result[1].msg \in {"Unknown flag: --" \o LongName(cli_args[k]),
                                "Unknown value flag: --" \o LongName(cli_args[k])}

C7_Witness ==
  /\ FailedWith("UnknownFlag")
  /\ i = 1
  /\ Len(cli_args) = 2
  /\ \E n \in 1..Len(command.flags) :
       /\ command.flags[n].takes_value
       /\ cli_args[2] = "--" \o command.flags[n].long
       /\ result[1].msg = "Unknown flag: --" \o command.flags[n].long

\* C8: a token `-c` for the short key of a declared takes-value flag takes the next token
\* whole as the flag's value, so that the scan reads that token neither as a positional
\* nor as a flag, and fails with MissingFlagValue when there is no next token; for a flag
\* that takes no value it records the toggle and the scan goes on with the next token.
C8_ShortFlag ==
  Running =>
    /\ pc = "scan" =>
         /\ i >= Len(cli_args) \/ i + 1 \in Scanned
         /\ provided_args = PositionalsFrom(command, cli_args, 1, i)
    /\ \A n \in 1..Len(command.flags) : \A k \in Scanned :
         (IsShortToken(cli_args[k]) /\ command.flags[n].short = Some(CharAt(cli_args[k], 2))) =>
           IF command.flags[n].takes_value
           THEN IF k = Len(cli_args)
                THEN /\ ~Read(k)
                     /\ (pc = "done" /\ i = k - 1) => FailedWith("MissingFlagValue")
                ELSE LastBinding(command.flags[n], k) =>
                       /\ i >= k + 1
                       /\ command.flags[n].long \in DOMAIN provided_flag_values
                       /\ provided_flag_values[command.flags[n].long] = cli_args[k + 1]
           ELSE Read(k) => command.flags[n].long \in provided_flags

C8_Witness ==
  /\ ScanComplete
  /\ Len(cli_args) = 2
  /\ ShortValueToken(command, cli_args[1])
  /\ IsShortToken(cli_args[2])
  /\ provided_args = <<>>
  /\ \E n \in 1..Len(command.flags) :
       /\ command.flags[n].short = Some(CharAt(cli_args[1], 2))
       /\ provided_flag_values[command.flags[n].long] = cli_args[2]

\* C9: once the scan has read every token, the run fails with MissingRequiredArgument
\* exactly when a declared non-optional argument has no value at its slot, and the error
\* names the first such argument in declaration order.
C9_RequiredArgs ==
  /\ FailedWith("MissingRequiredArgument") => ScanComplete
  /\ (ScanComplete /\ pc # "validate") =>
       IF MissingSlots # {}
       THEN /\ FailedWith("MissingRequiredArgument")
            /\ result[1].msg =
                 "Required argument '"
                   \o command.args[CHOOSE k \in MissingSlots : \A j \in MissingSlots : k <= j].name
                   \o "' not provided"
       ELSE ~FailedWith("MissingRequiredArgument")

C9_Witness ==
  /\ FailedWith("MissingRequiredArgument")
  /\ Cardinality(MissingSlots) = 2

\* C10: a header that declares N arguments and M flags lexes and parses to a command
\* with N args and M flags, and to the same Runfile whether the declarations are written
\* inline on the header or as indented lines under it.
C10_InlineBlockSame ==
  pc = "resolve" =>
    \A picks \in LexPicks : \A inline \in BOOLEAN :
      lines = Render(picks, inline) =>
        /\ Len(Target.args) = Cardinality(picks \cap LexArgs)
        /\ Len(Target.flags) = Cardinality(picks \ LexArgs)
        /\ runfile = parse(tokenize(Render(picks, ~inline)).val)

C10_Witness ==
  /\ pc = "resolve"
  /\ lines = <<"t:", "  -x", "  echo hi">>
  /\ Target.flags = <<>>

(***************************************************************************)
(* What the properties of whole texts speak of.                            *)
(***************************************************************************)
\* the lexer has returned a token sequence for the text
Lexed == pc \in {"parse", "resolve"} \/ (pc = "done" /\ ~FailedWith("LexError"))

\* the parser has returned the Runfile of the text
Parsed == runfile # None

\* line k of the text is a comment line, a separator, a blank line
IsCommentLine(k) == starts_with(trim(lines[k]), "#")

IsSeparatorLine(k) == is_separator_line(trim(lines[k]))

IsBlankLine(k) == trim(lines[k]) = ""

\* line k stands between two separator lines, as the title of a group header does
IsTitleLine(k) ==
  /\ k > 1
  /\ k < Len(lines)
  /\ IsSeparatorLine(k - 1)
  /\ IsSeparatorLine(k + 1)

\* line k is a command header
IsHeaderLine(k) == ~IsBlankLine(k) /\ is_command_line(lines[k])

RECURSIVE HeadersUpTo(_)
\* the command headers among the first k lines, in order
HeadersUpTo(k) ==
  IF k = 0 THEN <<>> ELSE HeadersUpTo(k - 1) \o (IF IsHeaderLine(k) THEN <<k>> ELSE <<>>)

HeaderLines == HeadersUpTo(Len(lines))

\* the tokens of one type, in order
TokensOf(type) == SelectSeq(tokens, LAMBDA t : t.type = type)

\* the first line of the contiguous run of comment lines that ends just above line h
RunTop(h) == CHOOSE j \in 1..h :
  /\ \A k \in j..(h - 1) : IsCommentLine(k)
  /\ j > 1 => ~IsCommentLine(j - 1)

\* the text of comment line k without its marker
TextOf(k) == trim(SubSeq(trim(lines[k]), 2, Len(trim(lines[k]))))

RECURSIVE DescribingTexts(_, _)
\* the texts of the lines j..(h - 1) that are neither separators nor titles, top first
DescribingTexts(j, h) ==
  IF j >= h
  THEN <<>>
  ELSE (IF IsSeparatorLine(j) \/ IsTitleLine(j) THEN <<>> ELSE <<TextOf(j)>>)
         \o DescribingTexts(j + 1, h)

RECURSIVE SpaceJoined(_)
SpaceJoined(texts) ==
  IF Len(texts) = 1 THEN texts[1] ELSE texts[1] \o " " \o SpaceJoined(Tail(texts))

\* the description the comment lines above header line h amount to
DescriptionOf(texts) == IF texts = <<>> THEN None ELSE Some(SpaceJoined(texts))

DescriptionAbove(h) == DescriptionOf(DescribingTexts(RunTop(h), h))

\* the n-th header token, and the n-th command once parsed, have the description
DescribedAs(headers, n, description) ==
  /\ headers[n].comment = description
  /\ Parsed => runfile.commands[n].description = description

\* each header token has the description that the lines above its line amount to
DescribedFromAbove(header_lines, headers) ==
  /\ Len(headers) = Len(header_lines)
  /\ \A n \in 1..Len(header_lines) :
       DescribedAs(headers, n, DescriptionAbove(header_lines[n]))

IsTriple(k) ==
  /\ k + 2 <= Len(lines)
  /\ IsSeparatorLine(k)
  /\ starts_with(trim(lines[k + 1]), "# ")
  /\ IsSeparatorLine(k + 2)

RECURSIVE TriplesFrom(_)
\* the first lines of the group-header triples from line k on, read top to bottom
TriplesFrom(k) ==
  IF k > Len(lines)
  THEN <<>>
  ELSE IF IsTriple(k) THEN <<k>> \o TriplesFrom(k + 3) ELSE TriplesFrom(k + 1)

Triples == TriplesFrom(1)

\* line k is one of the three lines of a group-header triple
InTriple(k) == \E n \in 1..Len(Triples) : k \in Triples[n]..(Triples[n] + 2)

\* line k is a comment line that is no separator, no group title and no shebang
IsPlainComment(k) ==
  /\ IsCommentLine(k)
  /\ ~IsSeparatorLine(k)
  /\ ~InTriple(k)
  /\ ~starts_with(trim(lines[k]), "#!/")

\* the first line after line k that is neither a plain comment nor blank; 0 if none
Follower(k) ==
  IF \E j \in (k + 1)..Len(lines) : ~IsPlainComment(j) /\ ~IsBlankLine(j)
  THEN CHOOSE j \in (k + 1)..Len(lines) :
         /\ ~IsPlainComment(j) /\ ~IsBlankLine(j)
         /\ \A m \in (k + 1)..(j - 1) : IsPlainComment(m) \/ IsBlankLine(m)
  ELSE 0

\* a command header follows the run of comment lines that line k is in
HeaderFollows(k) == Follower(k) # 0 /\ IsHeaderLine(Follower(k))

\* the plain comment lines that read as content and that no header follows
Standalone(content) ==
  {k \in 1..Len(lines) : IsPlainComment(k) /\ trim(lines[k]) = content /\ ~HeaderFollows(k)}

\* the Comment tokens that read as content
CommentTokens(content) ==
  {n \in 1..Len(tokens) : tokens[n].type = "Comment" /\ tokens[n].content = content}

\* the description of the header on line h has the text among the lines it was joined from
DescriptionHas(h, text) ==
  /\ \E n \in 1..Len(HeaderLines) :
       /\ HeaderLines[n] = h
       /\ TokensOf("CommandName")[n].comment # None
  /\ \E j \in 1..Len(DescribingTexts(RunTop(h), h)) : DescribingTexts(RunTop(h), h)[j] = text

(***************************************************************************)
(* C12: a comment line that is no separator, no group title and no shebang *)
(* gives a Comment token exactly when no command header follows its run of *)
(* comment lines, blank lines skipped; when a header follows, the line     *)
(* gives no token and its text is part of that header's description.       *)
(***************************************************************************)
C12_CommentTokenIffNoHeaderFollows ==
  Lexed =>
    /\ \A k \in 1..Len(lines) :
         IsPlainComment(k) =>
           Cardinality(CommentTokens(trim(lines[k]))) = Cardinality(Standalone(trim(lines[k])))
    /\ \A k \in 1..Len(lines) :
         IsPlainComment(k) /\ HeaderFollows(k) => DescriptionHas(Follower(k), TextOf(k))

\* a comment line directly above a header: no token, and the header is described by it
C12_Witness ==
  /\ Lexed
  /\ \E k \in 1..Len(lines) :
       /\ IsPlainComment(k)
       /\ HeaderFollows(k)
       /\ Follower(k) = k + 1
       /\ CommentTokens(trim(lines[k])) = {}
       /\ DescriptionHas(k + 1, TextOf(k))

\* the title of the group-header triple that starts on line k
TitleOf(k) == trim(SubSeq(trim(lines[k + 1]), 3, Len(trim(lines[k + 1]))))

\* the separator lines outside the triples that start on the lines of firsts
LoneSeparators(firsts) ==
  {k \in 1..Len(lines) :
     IsSeparatorLine(k) /\ \A n \in 1..Len(firsts) : k \notin firsts[n]..(firsts[n] + 2)}

\* the Comment tokens that read as a separator line
SeparatorTokens ==
  {n \in 1..Len(tokens) : tokens[n].type = "Comment" /\ is_separator_line(tokens[n].content)}

\* the title that the nearest of the triples above line h gives, if any
GroupAbove(firsts, h) ==
  IF \A n \in 1..Len(firsts) : firsts[n] > h
  THEN None
  ELSE Some(TitleOf(firsts[CHOOSE n \in 1..Len(firsts) :
                             /\ firsts[n] < h
                             /\ \A m \in 1..Len(firsts) : firsts[m] < h => m <= n]))

\* the GroupHeader tokens are those of the triples; their separators give no token
GroupTokensOf(firsts, headers) ==
  /\ Len(headers) = Len(firsts)
  /\ \A n \in 1..Len(firsts) : headers[n].name = TitleOf(firsts[n])
  /\ Cardinality(SeparatorTokens) = Cardinality(LoneSeparators(firsts))

\* the groups are those of the triples; each command is in the group above its header
GroupsOf(firsts, header_lines) ==
  /\ Len(runfile.groups) = Len(firsts)
  /\ \A n \in 1..Len(firsts) : runfile.groups[n].name = TitleOf(firsts[n])
  /\ Len(runfile.commands) = Len(header_lines)
  /\ \A n \in 1..Len(header_lines) :
       runfile.commands[n].group = GroupAbove(firsts, header_lines[n])

(***************************************************************************)
(* C13: each group-header triple (separator, `# <title>`, separator) gives *)
(* exactly one GroupHeader token named by its title and its separators     *)
(* give no other token; the parsed Runfile has one Group per triple, and   *)
(* every command after a triple, up to the next one, has that title as its *)
(* group.                                                                  *)
(***************************************************************************)
C13_GroupHeaderTriple ==
  /\ Lexed => GroupTokensOf(Triples, TokensOf("GroupHeader"))
  /\ Parsed => GroupsOf(Triples, HeaderLines)

\* two groups, a command in each
C13_Witness ==
  /\ Parsed
  /\ Len(runfile.groups) = 2
  /\ Len(runfile.commands) = 2
  /\ runfile.commands[1].group = Some("c1")
  /\ runfile.commands[2].group = Some("g2")

\* line k is an indented line of script text: not blank, not a comment, not a declaration
IsScriptText(k) ==
  /\ starts_with(lines[k], "  ")
  /\ ~IsBlankLine(k)
  /\ ~IsCommentLine(k)
  /\ ~starts_with(trim(lines[k]), "-")
  /\ contains(trim(lines[k]), " ")

\* the last line of the command whose header is on line h: up to the next header or triple
LastLineOf(h) ==
  IF \E j \in (h + 1)..Len(lines) : IsHeaderLine(j) \/ InTriple(j)
  THEN (CHOOSE j \in (h + 1)..Len(lines) :
          /\ IsHeaderLine(j) \/ InTriple(j)
          /\ \A m \in (h + 1)..(j - 1) : ~IsHeaderLine(m) /\ ~InTriple(m)) - 1
  ELSE Len(lines)

RECURSIVE ScriptComments(_, _, _)
\* the indented comment lines among the lines j..last, once script text has begun, in order
ScriptComments(j, last, begun) ==
  IF j > last
  THEN <<>>
  ELSE (IF begun /\ IsPlainComment(j) /\ starts_with(lines[j], "  ")
        THEN <<trim(lines[j])>>
        ELSE <<>>)
         \o ScriptComments(j + 1, last, begun \/ IsScriptText(j))

RECURSIVE IsSubsequence(_, _)
\* the items of part are among those of whole, in the same order
IsSubsequence(part, whole) ==
  IF part = <<>>
  THEN TRUE
  ELSE IF whole = <<>>
       THEN FALSE
       ELSE IF part[1] = whole[1]
            THEN IsSubsequence(Tail(part), Tail(whole))
            ELSE IsSubsequence(part, Tail(whole))

\* the script of every command has the comment lines of its body
ScriptsKeepComments(header_lines) ==
  /\ Len(runfile.commands) = Len(header_lines)
  /\ \A n \in 1..Len(header_lines) :
       IsSubsequence(ScriptComments(header_lines[n] + 1, LastLineOf(header_lines[n]), FALSE),
                     split(runfile.commands[n].script, "\n"))

(***************************************************************************)
(* C14: the script of a parsed command has every comment line that stands *)
(* among the lines of its script, in the order of the text, whatever       *)
(* follows the command.                                                    *)
(***************************************************************************)
C14_ScriptCommentsPreserved == Parsed => ScriptsKeepComments(HeaderLines)

\* a command whose script has a comment line after a line of script text
C14_Witness ==
  /\ Parsed
  /\ Len(HeaderLines) = 1
  /\ ScriptComments(HeaderLines[1] + 1, Len(lines), FALSE) = <<"# n">>
  /\ split(runfile.commands[1].script, "\n") = <<"  echo hi", "# n">>

(***************************************************************************)
(* What the properties of resolution speak of.                             *)
(***************************************************************************)
\* the resolver has returned
AfterResolve == Parsed /\ pc \notin {"tokenize", "parse", "resolve"}

\* the resolver has looked the command up and found it
Found == AfterResolve /\ ~FailedWith("CommandNotFound")

\* two distinct flags share a long name, or the short key of one is the long name or the
\* short key of another
KeyClash(flags) ==
  \E j, k \in 1..Len(flags) :
    /\ j # k
    /\ \/ flags[j].long = flags[k].long
       \/ /\ flags[j].short # None
          /\ \/ flags[j].short[1] = flags[k].long
             \/ flags[j].short = flags[k].short

\* the violations that validate_command looks for before it looks at the flags
ArgumentErrors == {"DuplicateArgument", "MultipleVarargs", "VarargsNotLast"}

(***************************************************************************)
(* C15: resolution fails with DuplicateFlag exactly when two distinct      *)
(* declared flags share a long name, or the short key of one flag is the   *)
(* long name or the short key of a different flag (and no violation among  *)
(* the arguments is reported first); a command whose flags have pairwise   *)
(* distinct keys, an inline bare `-x` among them, does not fail with       *)
(* DuplicateFlag.                                                          *)
(***************************************************************************)
C15_DuplicateFlag ==
  Found =>
    /\ FailedWith("DuplicateFlag") => KeyClash(Target.flags)
    /\ KeyClash(Target.flags) =>
         \E kind \in ArgumentErrors \cup {"DuplicateFlag"} : FailedWith(kind)

\* two flags that share a long name, reported
C15_Witness ==
  /\ Found
  /\ Len(Target.flags) = 2
  /\ Target.flags[1].long = Target.flags[2].long
  /\ Target.flags[1].short = None
  /\ FailedWith("DuplicateFlag")

RECURSIVE FlagKeys(_)
\* the keys of the flags, a long name and then a short key each, in declaration order
FlagKeys(flags) ==
  IF flags = <<>>
  THEN <<>>
  ELSE <<flags[1].long>> \o (IF flags[1].short = None THEN <<>> ELSE <<flags[1].short[1]>>)
         \o FlagKeys(Tail(flags))

Repeats(seq) == \E j, k \in 1..Len(seq) : j # k /\ seq[j] = seq[k]

\* the names of the arguments, in declaration order
ArgNames(args) == [k \in 1..Len(args) |-> args[k].name]

\* the order in which resolve looks for violations
ResolveOrder ==
  <<"CommandNotFound", "DuplicateArgument", "MultipleVarargs", "VarargsNotLast",
    "DuplicateFlag", "EmptyScript">>

\* the command that is looked up violates the invariant of that kind
Violates(cmd, kind) ==
  CASE kind = "CommandNotFound" ->
         \A c \in 1..Len(runfile.commands) :
           \A n \in 1..Len(runfile.commands[c].names) :
             runfile.commands[c].names[n] # target_command
    [] kind = "DuplicateArgument" -> Repeats(ArgNames(cmd.args))
    [] kind = "MultipleVarargs" -> Cardinality({k \in DOMAIN cmd.args : cmd.args[k].is_varargs}) > 1
    [] kind = "VarargsNotLast" ->
         \E k \in DOMAIN cmd.args : cmd.args[k].is_varargs /\ k # Len(cmd.args)
    [] kind = "DuplicateFlag" -> Repeats(FlagKeys(cmd.flags))
    [] kind = "EmptyScript" -> \A k \in 1..Len(cmd.script) : IsWhitespace(CharAt(cmd.script, k))

\* the kinds of violation of the command, as positions in the order
Violations(cmd) == {n \in DOMAIN ResolveOrder : Violates(cmd, ResolveOrder[n])}

\* resolve has ended as the set of violations asks: on the first of them, or well
EndsOnFirst(violations) ==
  IF violations = {}
  THEN pc = "run" /\ command # None /\ result = None
  ELSE FailedWith(ResolveOrder[CHOOSE n \in violations : \A m \in violations : n <= m])

(***************************************************************************)
(* C20: resolve fails fast in a fixed order: CommandNotFound before any    *)
(* validation, then DuplicateArgument, MultipleVarargs, VarargsNotLast,    *)
(* DuplicateFlag, EmptyScript; a command that violates several of these    *)
(* fails with the first of them, and one that violates none is resolved.   *)
(***************************************************************************)
C20_ResolveOrder == AfterResolve => EndsOnFirst(Violations(Target))

\* a command that violates three invariants fails with the first of them
C20_Witness ==
  /\ AfterResolve
  /\ Cardinality(Violations(Target)) >= 3
  /\ Violates(Target, "VarargsNotLast")
  /\ Violates(Target, "DuplicateFlag")
  /\ Violates(Target, "EmptyScript")
  /\ FailedWith("VarargsNotLast")

(***************************************************************************)
(* What the properties of the command-line entry speak of.                 *)
(***************************************************************************)
\* the `run` process has ended
Exited == pc = "done" /\ result # None

\* the child has exited with a code other than 0
ChildFailed == spawned /\ status # None /\ status # Some("0")

(***************************************************************************)
(* C16: the command-line entry `run <name> [args...]` hands the script to  *)
(* the child in inherited-stream mode (OutputMode::Inherit), never in      *)
(* capture mode: whenever run is entered, and whenever a child has been    *)
(* started, the mode is Inherit.                                           *)
(***************************************************************************)
C16_EntryInheritsStreams ==
  /\ Running => mode = Some(Inherit)
  /\ spawned => mode = Some(Inherit)

\* the entry has started a child
C16_Witness == Exited /\ spawned /\ mode # None

(***************************************************************************)
(* C17: when the child exits with a non-zero code c, the `run` process     *)
(* exits with the same code c.                                             *)
(***************************************************************************)
C17_ExitCodePropagated ==
  Exited /\ ChildFailed => ExitCode(result[1]) = status[1]

\* the child has exited with code 1, and so has the process
C17_Witness ==
  /\ Exited
  /\ ChildFailed
  /\ status = Some("1")
  /\ ExitCode(result[1]) = "1"

(***************************************************************************)
(* What the properties of lexical errors and of alias lists speak of.      *)
(***************************************************************************)
\* the header on line k carries a comment on the same line
HasSameLineComment(k) == contains(trim(lines[k]), " # ")

\* the header on line k, its colon stripped, is made of commas and blanks only: no name
HasNoName(k) ==
  \A n \in 1..Len(StripColon(trim(lines[k]))) :
    CharAt(StripColon(trim(lines[k])), n) \in {",", " "}

\* the header lines that the lexer rejects
BadHeaders == {k \in 1..Len(lines) : IsHeaderLine(k) /\ (HasSameLineComment(k) \/ HasNoName(k))}

\* the message that the rejected header on line k is reported with
MessageOf(k) ==
  IF HasSameLineComment(k)
  THEN "Command comments must be on the line above the command, not on the same line"
  ELSE "Command must have at least one name"

\* the lines that are neither blank nor comment lines
ContentLines == {k \in 1..Len(lines) : ~IsBlankLine(k) /\ ~IsCommentLine(k)}

\* the tokens that are neither Comment nor GroupHeader tokens
ContentTokens == {n \in 1..Len(tokens) : tokens[n].type \notin {"Comment", "GroupHeader"}}

\* the lexer has ended as the set of rejected headers asks: on the first of them, or with
\* one token for every line that is neither blank nor a comment line
LexEndsOn(bad) ==
  IF bad = {}
  THEN Lexed /\ Cardinality(ContentTokens) = Cardinality(ContentLines)
  ELSE /\ FailedWith("LexError")
       /\ result[1].msg = MessageOf(CHOOSE k \in bad : \A j \in bad : k <= j)

(***************************************************************************)
(* C18: tokenize fails only when a line classified as a command header has *)
(* an empty alias list or carries a same-line comment, and then with the   *)
(* error of the first such line; for every other text it returns a token   *)
(* sequence in which every line that is neither blank nor a comment line   *)
(* has its token.                                                          *)
(***************************************************************************)
C18_LexerTotal == pc # "tokenize" => LexEndsOn(BadHeaders)

\* a text with a header that has no name, rejected
C18_Witness ==
  /\ FailedWith("LexError")
  /\ result[1].msg = "Command must have at least one name"
  /\ \E k \in BadHeaders : HasNoName(k) /\ k > 1

\* the inline arguments and the inline flags that a tail declares
TailArgs(tail) ==
  CASE tail = " x" -> <<<<"x", FALSE, FALSE>>>>
    [] tail = " y?" -> <<<<"y", TRUE, FALSE>>>>
    [] OTHER -> <<>>

TailFlags(tail) == IF tail = " -v, --verb" THEN <<<<"verb", Some("v"), FALSE, None>>>> ELSE <<>>

\* the header token has exactly the names, and the tail's parameters as inline parameters
HeaderOf(token, names, tail) ==
  /\ token.type = "CommandName"
  /\ token.name = names
  /\ token.inline_args = TailArgs(tail)
  /\ token.inline_flags = TailFlags(tail)

(***************************************************************************)
(* C19: a header of k names written with commas between them, the comma    *)
(* trailing a name or leading the next, gives a header token whose names   *)
(* are exactly those k names in the order written; what follows the names  *)
(* becomes the inline parameters and never a name.  The parsed command has *)
(* the same names.                                                         *)
(***************************************************************************)
C19_AliasNames ==
  Lexed =>
    \A names \in UNION {[1..n -> AliasNames] : n \in 1..MaxAliases} :
      \A comma \in AliasCommas, tail \in AliasTails :
        lines = AliasRunfile(names, comma, tail) =>
          /\ HeaderOf(tokens[1], names, tail)
          /\ Parsed => runfile.commands[1].names = names

\* two names, the comma trailing the first, and an argument after them
C19_Witness ==
  /\ Parsed
  /\ lines = AliasRunfile(<<"b", "build">>, ", ", " x")
  /\ runfile.commands[1].names = <<"b", "build">>
  /\ Len(runfile.commands[1].args) = 1

\* the commands, by position in the document, that have the target among their names
Matching ==
  {k \in 1..Len(runfile.commands) :
     \E n \in 1..Len(runfile.commands[k].names) : runfile.commands[k].names[n] = target_command}

\* resolve has ended as the matching commands ask: on the first of them, or not found
SelectsFirstOf(matching) ==
  IF matching = {}
  THEN FailedWith("CommandNotFound")
  ELSE /\ ~FailedWith("CommandNotFound")
       /\ pc = "run" =>
            command = runfile.commands[CHOOSE k \in matching : \A j \in matching : k <= j]

(***************************************************************************)
(* C21: resolve selects the first command, in the order of the document,   *)
(* that has the target among its names (any of them, not only the first),  *)
(* and fails with CommandNotFound exactly when no command has the target   *)
(* among its names.                                                        *)
(***************************************************************************)
C21_ResolveSelectsFirstMatch == AfterResolve => SelectsFirstOf(Matching)

\* two commands have the target as their second name; the first of them is resolved
C21_Witness ==
  /\ AfterResolve
  /\ Matching = {1, 2}
  /\ runfile.commands[1].names[1] # target_command
  /\ runfile.commands[1].script # runfile.commands[2].script
  /\ command = runfile.commands[1]

(***************************************************************************)
(* What the properties of indented lines and of script bodies speak of.    *)
(***************************************************************************)
\* the line is indented by exactly two spaces
IsIndentedByTwo(line) == starts_with(line, "  ") /\ ~starts_with(line, "   ")

\* the line, indented by two spaces, reads as a bare short flag `-x`
IsBareShortLine(line) ==
  /\ IsIndentedByTwo(line)
  /\ Len(trim(line)) = 2
  /\ CharAt(trim(line), 1) = "-"
  /\ CharAt(trim(line), 2) # "-"

\* the line, indented by two spaces, reads as `--long[=<hint>]` or as `-x, --long[=<hint>]`
IsLongFlagLine(line) ==
  /\ IsIndentedByTwo(line)
  /\ \/ starts_with(trim(line), "--")
     \/ /\ Len(trim(line)) > 6
        /\ CharAt(trim(line), 1) = "-"
        /\ SubSeq(trim(line), 3, 6) = ", --"

\* every line has its own token: no line is blank, a comment or part of a triple
LineByLine == Lexed /\ Len(tokens) = Len(lines)

(***************************************************************************)
(* C22: a line indented by exactly two spaces that reads as a bare short   *)
(* flag `-x` is lexed as a Flag token, as the lines that read as           *)
(* `-x, --long[=<hint>]` and `--long[=<hint>]` are.                        *)
(***************************************************************************)
C22_BareShortFlagLine ==
  LineByLine =>
    \A k \in 1..Len(lines) :
      IsBareShortLine(lines[k]) \/ IsLongFlagLine(lines[k]) => tokens[k].type = "Flag"

\* a bare short flag on an indented line, between two lines that are lexed as flags
C22_Witness ==
  /\ LineByLine
  /\ \E k \in 1..Len(lines) : IsBareShortLine(lines[k])
  /\ \E k \in 1..Len(lines) : IsLongFlagLine(lines[k]) /\ tokens[k].type = "Flag"

\* the lines of the body under header line h that read as a shebang
ShebangLines(h) ==
  {k \in (h + 1)..LastLineOf(h) : starts_with(trim(lines[k]), "#!")}

\* the shebang that the body under header line h asks for
ShebangOf(shebangs) ==
  IF shebangs = {}
  THEN "#!/bin/sh"
  ELSE trim(lines[CHOOSE k \in shebangs : \A j \in shebangs : k <= j])

\* each command has the shebang that the body under its header asks for
ShebangsFrom(header_lines) ==
  /\ Len(runfile.commands) = Len(header_lines)
  /\ \A n \in 1..Len(header_lines) :
       runfile.commands[n].shebang = ShebangOf(ShebangLines(header_lines[n]))

(***************************************************************************)
(* C23: the shebang of a command is the trimmed text of the first line of  *)
(* its body that starts with `#!`, also when script lines or comments      *)
(* stand before that line in the body; a command whose body has no such    *)
(* line has the shebang `#!/bin/sh`.                                       *)
(***************************************************************************)
C23_ShebangOfBody == Parsed => ShebangsFrom(HeaderLines)

\* a body that begins with a shebang line, and a second command that has none
C23_Witness ==
  /\ Parsed
  /\ Len(runfile.commands) = 2
  /\ lines[2] = "  #!/bin/bash"
  /\ runfile.commands[1].shebang = "#!/bin/bash"
  /\ runfile.commands[2].shebang = "#!/bin/sh"

(***************************************************************************)
(* What the properties of the tokens under one header speak of.            *)
(***************************************************************************)
\* token k opens a command or a group
IsHeaderToken(k) == tokens[k].type \in {"CommandName", "GroupHeader"}

RECURSIVE CommandTokensUpTo(_)
\* the positions of the command headers among the first k tokens, in order
CommandTokensUpTo(k) ==
  IF k = 0
  THEN <<>>
  ELSE CommandTokensUpTo(k - 1) \o (IF tokens[k].type = "CommandName" THEN <<k>> ELSE <<>>)

\* the last token before the next header after token c
LastTokenOf(c) ==
  CHOOSE last \in c..Len(tokens) :
    /\ \A k \in (c + 1)..last : ~IsHeaderToken(k)
    /\ last = Len(tokens) \/ IsHeaderToken(last + 1)

\* the token in (c, last] on which the script begins; last + 1 when there is none
ScriptStart(c, last) ==
  CHOOSE s \in (c + 1)..(last + 1) :
    /\ \A k \in (c + 1)..(s - 1) : tokens[k].type \notin {"ScriptLine", "Comment"}
    /\ s = last + 1 \/ tokens[s].type \in {"ScriptLine", "Comment"}

\* the names of a sequence of arguments, the long names of a sequence of flags
NamesOf(args) == [k \in 1..Len(args) |-> args[k].name]

LongsOf(flags) == [k \in 1..Len(flags) |-> flags[k].long]

\* the declarations among tokens from..upto, by name
DeclaredArgs(from, upto) ==
  LET decls == SelectSeq(SubSeq(tokens, from, upto), LAMBDA t : t.type = "Argument")
  IN [k \in 1..Len(decls) |-> decls[k].name]

DeclaredFlags(from, upto) ==
  LET decls == SelectSeq(SubSeq(tokens, from, upto), LAMBDA t : t.type = "Flag")
  IN [k \in 1..Len(decls) |-> decls[k].long_name]

\* the script line is the token, rendered back as text
RenderedAs(token, line) ==
  CASE token.type \in {"ScriptLine", "Comment"} -> line = token.content
    [] token.type = "Argument" -> line = token.name
    [] token.type = "Flag" /\ token.short # None ->
         line = "-" \o token.short[1] \o ", --" \o token.long_name
    [] token.type = "Flag" /\ token.short = None ->
         starts_with(line, "-") /\ ends_with(line, ", --" \o token.long_name)

\* the script is the tokens s..last, one line each, in token order
ScriptOf(script_lines, s, last) ==
  /\ Len(script_lines) = last - s + 1
  /\ \A k \in s..last : RenderedAs(tokens[k], script_lines[k - s + 1])

\* the command of header token c: declarations stop where its script begins at token s
Framed(cmd, c, s, last) ==
  /\ NamesOf(cmd.args) = NamesOf(InlineArgsToArguments(tokens[c].inline_args))
                           \o DeclaredArgs(c + 1, s - 1)
  /\ LongsOf(cmd.flags) = LongsOf(InlineFlagsToFlags(tokens[c].inline_flags))
                            \o DeclaredFlags(c + 1, s - 1)
  /\ IF s > last THEN cmd.script = "" ELSE ScriptOf(split(cmd.script, "\n"), s, last)

FramedFrom(command_tokens) ==
  /\ Len(runfile.commands) = Len(command_tokens)
  /\ \A n \in 1..Len(command_tokens) :
       Framed(runfile.commands[n], command_tokens[n],
              ScriptStart(command_tokens[n], LastTokenOf(command_tokens[n])),
              LastTokenOf(command_tokens[n]))

(***************************************************************************)
(* C24: once the script of a command has begun (on its first ScriptLine or *)
(* Comment token), every later Argument or Flag token before the next      *)
(* header leaves the args and the flags of the command as they were and    *)
(* adds exactly one line to its script, an Argument as its name and a Flag *)
(* as `-<short>, --<long>`, in token order; a command header or a group    *)
(* header ends the script, and declarations are read again after it.       *)
(***************************************************************************)
C24_DeclarationsInScript == Parsed => FramedFrom(CommandTokensUpTo(Len(tokens)))

\* an argument and a flag after the first script line, then a header and a declaration
C24_Witness ==
  /\ Parsed
  /\ \E k \in 3..Len(tokens) :
       /\ tokens[k].type = "Flag"
       /\ tokens[k].short # None
       /\ tokens[k - 1].type \in {"ScriptLine", "Argument"}
       /\ \E j \in 2..(k - 1) : tokens[j].type = "ScriptLine"
       /\ \A j \in 2..k : ~IsHeaderToken(j)
       /\ runfile.commands[1].flags = <<>>
       /\ Len(split(runfile.commands[1].script, "\n")) = Len(tokens) - 1

(***************************************************************************)
(* What the properties of the positional slots speak of.                   *)
(***************************************************************************)
\* the positional values of the caller's vector, in order
Positionals == PositionalsFrom(command, cli_args, 1, Len(cli_args))

\* the position (0-based) of the variadic argument of a validated command: the last one
VariadicPosition == Len(command.args) - 1

\* parse_cli_args has returned: the scan read every token and the variadic branch ran
Bound == ScanComplete

\* the slots hold the first P values one by one, and slot P the other values, joined
SlotsOf(values, P) ==
  /\ Len(provided_args) = P + 1
  /\ \A k \in 1..P : provided_args[k] = values[k]
  /\ provided_args[P + 1] = SpaceJoined(SubSeq(values, P + 1, Len(values)))

(***************************************************************************)
(* C25: for a command with a variadic argument at position P, invoked with *)
(* n > P positional values, binding leaves the first P values in slots     *)
(* 0..P-1, in order, and makes slot P the values from index P on, joined   *)
(* in order with single spaces: exactly P+1 slots are bound; the flag      *)
(* tokens among the positional values are no part of the joined value.     *)
(***************************************************************************)
C25_VariadicCollects ==
  (/\ Bound
   /\ command.args # <<>>
   /\ command.args[Len(command.args)].is_varargs
   /\ Len(Positionals) > VariadicPosition) =>
    SlotsOf(Positionals, VariadicPosition)

\* two values for a variadic argument at position 0; one value and a flag token
C25_Witness ==
  /\ Bound
  /\ Len(command.args) = 1
  /\ command.args[1].is_varargs
  /\ cli_args = <<"x", "y">>
  /\ provided_args = <<"x y">>

C25_WitnessFlag ==
  /\ Bound
  /\ Len(command.args) = 1
  /\ command.args[1].is_varargs
  /\ Len(cli_args) = 2
  /\ IsToggleToken(cli_args[1])
  /\ provided_args = <<"x">>

\* the environment keys that the declarations of the command give rise to
DeclaredKeys ==
  UNION ({KeysOf(command.args[k].name) : k \in 1..Len(command.args)}
           \cup {KeysOf(command.flags[k].long) : k \in 1..Len(command.flags)})

\* the caller passes more positional values than the command, without a variadic
\* argument, declares
Surplus ==
  /\ Running
  /\ \A k \in 1..Len(command.args) : ~command.args[k].is_varargs
  /\ Len(Positionals) > Len(command.args)

\* each declared argument has its own value, unless a flag writes the same key
SlotsInEnv ==
  \A k \in 1..Len(command.args) :
    (\A n \in 1..Len(command.flags) :
       KeysOf(command.flags[n].long) \cap KeysOf(command.args[k].name) = {}) =>
      /\ EnvHas(command.args[k].name, Positionals[k])
      /\ EnvHas(to_uppercase(command.args[k].name), Positionals[k])

(***************************************************************************)
(* C28: when the caller passes more positional values than the command     *)
(* declares arguments and the command has no variadic argument, binding    *)
(* ends without an error (once the scan has read every token, the run goes *)
(* on to execute_script), and the surplus values are bound to no           *)
(* environment key: the keys are those of the declarations alone.          *)
(***************************************************************************)
C28_SurplusPositionalsDropped ==
  Surplus =>
    /\ ~FailedWith("MissingRequiredArgument")
    /\ (pc = "done" /\ ScanComplete) => Executed
    /\ Bound => provided_args = Positionals
    /\ pc = "execute" => (DOMAIN env_vars \subseteq DeclaredKeys /\ SlotsInEnv)

\* one declared argument and two values: the second value is in no key
C28_Witness ==
  /\ Surplus
  /\ pc = "execute"
  /\ Len(command.args) = 1
  /\ command.flags = <<>>
  /\ cli_args = <<"x", "y">>
  /\ DOMAIN env_vars = KeysOf(command.args[1].name)
  /\ EnvHas(command.args[1].name, "x")

(***************************************************************************)
(* What the properties of the shape of a header line speak of.             *)
(***************************************************************************)
\* the header on line k has a `#` after its first name: a comment on the same line
HasHash(k) == IsHeaderLine(k) /\ ~IsCommentLine(k) /\ contains(lines[k], "#")

\* the header lines that carry a comment on the same line
HashedHeaders == {k \in 1..Len(lines) : HasHash(k)}

\* the lexer has ended with the error of a comment on the line of a header
SameLineCommentError ==
  /\ FailedWith("LexError")
  /\ result[1].msg =
       "Command comments must be on the line above the command, not on the same line"

(***************************************************************************)
(* C26: a text with a header line that carries a `#` comment on the same   *)
(* physical line makes tokenize fail with the error `Command comments must *)
(* be on the line above the command, not on the same line`, whether the    *)
(* header ends in a colon or not and however the `#` is spaced.            *)
(***************************************************************************)
C26_SameLineCommentRejected ==
  (pc # "tokenize" /\ HashedHeaders # {}) =>
    SameLineCommentError

\* a header without a colon whose comment stands between two spaces is rejected
C26_Witness ==
  /\ SameLineCommentError
  /\ \E k \in HashedHeaders : lines[k] = "u # x"

(***************************************************************************)
(* What the property of the two uses of a comment line speaks of.          *)
(***************************************************************************)
\* no other line of the text reads as line k does
IsOnlyLine(k) == \A j \in 1..Len(lines) : j # k => trim(lines[j]) # trim(lines[k])

\* a Comment token was emitted for line k
EmittedAsComment(k) ==
  \E n \in 1..Len(tokens) :
    tokens[n].type = "Comment" /\ trim(tokens[n].content) = trim(lines[k])

\* the text of line k is one of the texts that the description of a header was joined from
InDescription(k) ==
  \E n \in 1..Len(tokens) :
    /\ tokens[n].type = "CommandName"
    /\ tokens[n].comment # None
    /\ \E j \in 1..Len(split(tokens[n].comment[1], " ")) :
         split(tokens[n].comment[1], " ")[j] = TextOf(k)

(***************************************************************************)
(* C27: no comment line is both emitted as a Comment token of its own and  *)
(* included in the description of a command header.                        *)
(***************************************************************************)
C27_CommentUsedOnce ==
  Lexed =>
    \A k \in 1..Len(lines) :
      IsCommentLine(k) /\ IsOnlyLine(k) => ~(EmittedAsComment(k) /\ InDescription(k))

\* a comment line that describes the header below it and gives no token
C27_Witness ==
  /\ Lexed
  /\ \E k \in 1..Len(lines) :
       /\ IsCommentLine(k)
       /\ IsOnlyLine(k)
       /\ InDescription(k)
       /\ ~EmittedAsComment(k)

\* line k begins with whitespace: one or more spaces, or a tab
BeginsWithWhitespace(k) == lines[k] # "" /\ CharAt(lines[k], 1) \in {" ", "\t"}

\* the lines that begin at column 0
UnindentedLines == {k \in 1..Len(lines) : ~BeginsWithWhitespace(k)}

(***************************************************************************)
(* C30: a line that begins with whitespace (one or more spaces, or a tab)  *)
(* is never classified as a command header: it gives no CommandName token, *)
(* and so it never ends the body of the command above it: there are no     *)
(* more commands than lines that begin at column 0.                        *)
(***************************************************************************)
C30_IndentedLineIsNoHeader ==
  /\ LineByLine =>
       \A k \in 1..Len(lines) : BeginsWithWhitespace(k) => tokens[k].type # "CommandName"
  /\ Parsed => Len(runfile.commands) <= Cardinality(UnindentedLines)

\* a line of one word, indented by two spaces, under a header: it declares an argument
C30_Witness ==
  /\ LineByLine
  /\ Parsed
  /\ Len(lines) = 2
  /\ lines[2] = "  x"
  /\ tokens[2].type = "Argument"
  /\ Len(runfile.commands) = 1

(***************************************************************************)
(* What the property of the help text speaks of.                           *)
(***************************************************************************)
\* the line lists a command, at column 0 or under a group
ListsUngrouped(line) ==
  \E n \in 1..Len(runfile.commands) :
    starts_with(line, join(runfile.commands[n].names, ", "))

ListsGrouped(line) ==
  \E n \in 1..Len(runfile.commands) :
    starts_with(line, "  " \o join(runfile.commands[n].names, ", "))

\* the line is the header of a group
IsGroupLine(line) == \E n \in 1..Len(runfile.groups) : line = runfile.groups[n].name

\* the commands without a group, the commands of a group
Ungrouped == {n \in 1..Len(runfile.commands) : runfile.commands[n].group = None}

Grouped == {n \in 1..Len(runfile.commands) : runfile.commands[n].group # None}

\* each command is listed once: the ungrouped ones above every group header
ListedOnce(help) ==
  /\ Cardinality({k \in 1..Len(help) : ListsUngrouped(help[k])}) = Cardinality(Ungrouped)
  /\ Cardinality({k \in 1..Len(help) : ListsGrouped(help[k])}) = Cardinality(Grouped)
  /\ \A k \in 1..Len(help) :
       ListsUngrouped(help[k]) => \A j \in 1..(k - 1) : ~IsGroupLine(help[j])

(***************************************************************************)
(* C29: the help text of a parsed Runfile lists each command exactly once: *)
(* the commands without a group first, under no header, then the commands  *)
(* of each group under the header of the group, whatever the names of the  *)
(* groups are, also when a name occurs more than once.                     *)
(***************************************************************************)
C29_HelpListsEachCommandOnce == Parsed => ListedOnce(generate_help(runfile))

\* a command without a group and a command of a group, each listed once
C29_Witness ==
  /\ Parsed
  /\ Len(runfile.groups) = 1
  /\ generate_help(runfile) = <<"foo", runfile.groups[1].name, "  foo", "">>

====
